---- MODULE Spec2Model ----
(***************************************************************************)
(* State-machine model of the workshop-management backend: booking, job,   *)
(* invoice, leave-request, goods-request and inventory handling as         *)
(* implemented by the HTTP controllers and the                             *)
(* mongoose schemas.  One action per request handler; every handler runs   *)
(* to its response in one step; SpecInvoiceRace splits createInvoice       *)
(* between its reads and its write to study interleaved requests.          *)
(* Titles, descriptions, a job's notes and the stamps of who did something *)
(* (createdBy, inspectedBy, inspector) are left out of the documents.      *)
(***************************************************************************)
EXTENDS Integers, Sequences, FiniteSets, TLC

VARIABLES
  now,        \* the wall clock read by `new Date()`, in whole days
  resp,       \* HTTP status code of the last response sent
  bookings,   \* Booking collection: _id -> document or NoDoc
  jobs,       \* Job collection: _id -> document or NoDoc
  invoices,   \* Invoice collection: _id -> document or NoDoc
  inflight,   \* createInvoice requests suspended between their reads and Invoice.create
  leaveRequests,  \* LeaveRequest collection: _id -> document or NoDoc
  goodsRequests,  \* GoodsRequest collection: _id -> document or NoDoc
  inventory,      \* InventoryItem collection: _id -> document or NoDoc
  json,           \* body of the last response sent, where a claim reads it
  issued,         \* history: every itemId given to an inventory item so far
  users,          \* User collection of the account handlers: _id -> document or NoDoc
  vehicles        \* Vehicle collection of the vehicle handlers: _id -> document or NoDoc

vars == <<now, resp, bookings, jobs, invoices, inflight,
          leaveRequests, goodsRequests, inventory, json, issued, users, vehicles>>

NULL == "null"          \* undefined / absent string or id field
Unset == 0              \* undefined / absent Date or Number field
NoDoc == [missing |-> TRUE]   \* what findById returns for an id without a document
NoItems == <<[absent |-> TRUE]>>   \* undefined / absent array field

\* ------------------------------------------------------------------ bounds
MaxTime == 2            \* the clock runs over 1..MaxTime
MaxNotes == 1           \* the note log is tracked by its length, saturating here

Times == 1..MaxTime
\* Document ids.  No booking handler but the slot check reads a second booking,
\* and no job handler reads a second job.
BookingIds == {"b1"}

\* ---------------------------------------------------------------- fixtures
\* The User collection is not changed by any handler modelled here.
Users == {"c1", "t1", "t2", "t3", "sa1", "m1"}

UserRole ==
  [u \in Users |->
     CASE u = "c1" -> "customer"
       [] u \in {"t1", "t2", "t3"} -> "technician"
       [] u = "sa1" -> "service_advisor"
       [] OTHER -> "manager"]

UserStatus == [u \in Users |-> IF u = "t3" THEN "inactive" ELSE "active"]

\* User.findById: the document, or NULL for an id that is not in the collection
UserFindById(u) == IF u \in Users THEN u ELSE NULL

\* The Vehicle collection: _id -> owner
Vehicles == {"v1", "v2"}
VehicleOwner == [v \in Vehicles |-> IF v = "v1" THEN "c1" ELSE "sa1"]

\* ------------------------------------------------------------ Booking model
BookingStatuses == {"pending", "inspecting", "working", "completed", "cancelled"}
\* two of the four slots of the source; the handlers only test membership
validTimeSlots == {"09:00-11:00", "11:00-13:00"}

\* midnight of the current day; the clock already counts whole days
Today == now

PushNote(b) == [b EXCEPT !.notes = IF @ < MaxNotes THEN @ + 1 ELSE @]

\* Booking.findOne({scheduledDate, timeSlot, status: {$nin: [cancelled, completed]}})
SlotTaken(date, slot, except) ==
  \E o \in DOMAIN bookings :
     /\ o # except
     /\ bookings[o] # NoDoc
     /\ bookings[o].scheduledDate = date
     /\ bookings[o].timeSlot = slot
     /\ bookings[o].status \notin {"cancelled", "completed"}

Reply(code) == resp' = code

Tick ==
  /\ now < MaxTime
  /\ now' = now + 1
  /\ UNCHANGED <<resp, bookings, jobs, invoices, inflight, leaveRequests, goodsRequests, inventory, json, issued, users, vehicles>>

\* bookingController.js createBooking
createBooking(customer, vehicle, scheduledDate, timeSlot) ==
  /\ UNCHANGED <<now, jobs, invoices, inflight, leaveRequests, goodsRequests, inventory, json, issued, users, vehicles>>
  /\ IF customer = NULL \/ vehicle = NULL \/ scheduledDate = Unset \/ timeSlot = NULL
       THEN Reply(400) /\ UNCHANGED bookings
     ELSE IF timeSlot \notin validTimeSlots
       THEN Reply(400) /\ UNCHANGED bookings
     ELSE IF UserFindById(customer) = NULL
       THEN Reply(404) /\ UNCHANGED bookings
     ELSE IF UserRole[customer] # "customer"
       THEN Reply(400) /\ UNCHANGED bookings
     ELSE IF vehicle \notin Vehicles
       THEN Reply(404) /\ UNCHANGED bookings
     ELSE IF VehicleOwner[vehicle] # customer
       THEN Reply(400) /\ UNCHANGED bookings
     ELSE IF SlotTaken(scheduledDate, timeSlot, NULL)
       THEN Reply(400) /\ UNCHANGED bookings
     ELSE IF scheduledDate < Today
       THEN Reply(400) /\ UNCHANGED bookings
     ELSE \E id \in DOMAIN bookings :
            /\ bookings[id] = NoDoc
            /\ bookings' = [bookings EXCEPT ![id] =
                 [customer |-> customer, vehicle |-> vehicle,
                  scheduledDate |-> scheduledDate, timeSlot |-> timeSlot,
                  status |-> "pending", assignedInspector |-> NULL,
                  completedAt |-> Unset, notes |-> 0]]
            /\ Reply(201)

\* the second booking controller's createBooking (cashier workflow)
createBooking2(customer, vehicle, scheduledDate, timeSlot) ==
  /\ UNCHANGED <<now, jobs, invoices, inflight, leaveRequests, goodsRequests, inventory, json, issued, users, vehicles>>
  /\ IF customer = NULL \/ vehicle = NULL \/ scheduledDate = Unset \/ timeSlot = NULL
       THEN Reply(400) /\ UNCHANGED bookings
     ELSE IF UserFindById(customer) = NULL
       THEN Reply(404) /\ UNCHANGED bookings
     ELSE IF UserRole[customer] # "customer"
       THEN Reply(400) /\ UNCHANGED bookings
     ELSE IF timeSlot \notin validTimeSlots        \* schema enum validator
       THEN Reply(400) /\ UNCHANGED bookings
     ELSE \E id \in DOMAIN bookings :
            /\ bookings[id] = NoDoc
            /\ bookings' = [bookings EXCEPT ![id] =
                 [customer |-> customer, vehicle |-> vehicle,
                  scheduledDate |-> scheduledDate, timeSlot |-> timeSlot,
                  status |-> "pending", assignedInspector |-> NULL,
                  completedAt |-> Unset, notes |-> 1]]
            /\ Reply(201)

\* findByIdAndUpdate(id, body): every field present in the body is written
ApplyBookingBody(b, body) ==
  [b EXCEPT
     !.status = IF body.status # NULL THEN body.status ELSE @,
     !.scheduledDate = IF body.scheduledDate # Unset THEN body.scheduledDate ELSE @,
     !.timeSlot = IF body.timeSlot # NULL THEN body.timeSlot ELSE @,
     !.completedAt = IF body.completedAt # Unset THEN body.completedAt ELSE @]

\* bookingController.js updateBooking
updateBooking(id, body) ==
  /\ UNCHANGED <<now, jobs, invoices, inflight, leaveRequests, goodsRequests, inventory, json, issued, users, vehicles>>
  /\ IF body.status # NULL /\ body.status \notin BookingStatuses
       THEN Reply(400) /\ UNCHANGED bookings
     ELSE IF body.timeSlot # NULL /\ body.timeSlot \notin validTimeSlots
       THEN Reply(400) /\ UNCHANGED bookings
     ELSE IF (body.scheduledDate # Unset \/ body.timeSlot # NULL) /\ bookings[id] = NoDoc
       THEN Reply(404) /\ UNCHANGED bookings
     ELSE IF /\ (body.scheduledDate # Unset \/ body.timeSlot # NULL)
             /\ SlotTaken(IF body.scheduledDate # Unset THEN body.scheduledDate
                                                      ELSE bookings[id].scheduledDate,
                          IF body.timeSlot # NULL THEN body.timeSlot
                                                 ELSE bookings[id].timeSlot,
                          id)
       THEN Reply(400) /\ UNCHANGED bookings
     ELSE IF bookings[id] = NoDoc
       THEN Reply(404) /\ UNCHANGED bookings
     ELSE LET stamped == IF body.status = "completed" /\ body.completedAt = Unset
                           THEN [body EXCEPT !.completedAt = now]
                           ELSE body
          IN /\ bookings' = [bookings EXCEPT ![id] = ApplyBookingBody(@, stamped)]
             /\ Reply(200)

\* the second controller's updateBooking: the body goes to findByIdAndUpdate,
\* only the schema's enum validators stand in the way
updateBooking2(id, body) ==
  /\ UNCHANGED <<now, jobs, invoices, inflight, leaveRequests, goodsRequests, inventory, json, issued, users, vehicles>>
  /\ IF body.status # NULL /\ body.status \notin BookingStatuses
       THEN Reply(400) /\ UNCHANGED bookings
     ELSE IF body.timeSlot # NULL /\ body.timeSlot \notin validTimeSlots
       THEN Reply(400) /\ UNCHANGED bookings
     ELSE IF bookings[id] = NoDoc
       THEN Reply(404) /\ UNCHANGED bookings
     ELSE /\ bookings' = [bookings EXCEPT ![id] = ApplyBookingBody(@, body)]
          /\ Reply(200)

\* bookingController.js assignInspector
assignInspector(id, inspectorId) ==
  /\ UNCHANGED <<now, jobs, invoices, inflight, leaveRequests, goodsRequests, inventory, json, issued, users, vehicles>>
  /\ IF inspectorId = NULL
       THEN Reply(400) /\ UNCHANGED bookings
     ELSE IF UserFindById(inspectorId) = NULL
       THEN Reply(404) /\ UNCHANGED bookings
     ELSE IF UserRole[inspectorId] \notin {"service_advisor", "manager", "admin"}
       THEN Reply(400) /\ UNCHANGED bookings
     ELSE IF bookings[id] = NoDoc
       THEN Reply(404) /\ UNCHANGED bookings
     ELSE /\ bookings' = [bookings EXCEPT ![id].assignedInspector = inspectorId,
                                          ![id].status = "inspecting"]
          /\ Reply(200)

\* the second controller's assignInspector
assignInspector2(id, inspectorId) ==
  /\ UNCHANGED <<now, jobs, invoices, inflight, leaveRequests, goodsRequests, inventory, json, issued, users, vehicles>>
  /\ IF inspectorId = NULL
       THEN Reply(400) /\ UNCHANGED bookings
     ELSE IF UserFindById(inspectorId) = NULL
       THEN Reply(404) /\ UNCHANGED bookings
     ELSE IF UserRole[inspectorId] # "service_advisor"
       THEN Reply(400) /\ UNCHANGED bookings
     ELSE IF bookings[id] = NoDoc
       THEN Reply(404) /\ UNCHANGED bookings
     ELSE IF bookings[id].status # "pending"
       THEN Reply(400) /\ UNCHANGED bookings
     ELSE /\ bookings' = [bookings EXCEPT ![id] =
               PushNote([@ EXCEPT !.assignedInspector = inspectorId,
                                  !.status = "inspecting"])]
          /\ Reply(200)

\* bookingController.js updateBookingStatus
updateBookingStatus(id, status, notes) ==
  /\ UNCHANGED <<now, jobs, invoices, inflight, leaveRequests, goodsRequests, inventory, json, issued, users, vehicles>>
  /\ IF status = NULL
       THEN Reply(400) /\ UNCHANGED bookings
     ELSE IF status \notin BookingStatuses
       THEN Reply(400) /\ UNCHANGED bookings
     ELSE IF bookings[id] = NoDoc
       THEN Reply(404) /\ UNCHANGED bookings
     ELSE LET updated == [bookings[id] EXCEPT
                            !.status = status,
                            !.completedAt = IF status = "completed" THEN now ELSE @]
          IN /\ bookings' = [bookings EXCEPT ![id] =
                  IF notes THEN PushNote(updated) ELSE updated]
             /\ Reply(200)

allowedTransitions ==
  [s \in BookingStatuses |->
     CASE s = "pending" -> {"inspecting", "cancelled"}
       [] s = "inspecting" -> {"working", "cancelled"}
       [] s = "working" -> {"completed", "cancelled"}
       [] OTHER -> {}]

\* the second controller's updateBookingStatus
updateBookingStatus2(id, status) ==
  /\ UNCHANGED <<now, jobs, invoices, inflight, leaveRequests, goodsRequests, inventory, json, issued, users, vehicles>>
  /\ IF status = NULL
       THEN Reply(400) /\ UNCHANGED bookings
     ELSE IF status \notin BookingStatuses
       THEN Reply(400) /\ UNCHANGED bookings
     ELSE IF bookings[id] = NoDoc
       THEN Reply(404) /\ UNCHANGED bookings
     ELSE IF status \notin allowedTransitions[bookings[id].status]
       THEN Reply(400) /\ UNCHANGED bookings
     ELSE /\ bookings' = [bookings EXCEPT ![id] =
               PushNote([@ EXCEPT !.status = status,
                                  !.completedAt = IF status = "completed" THEN now ELSE @])]
          /\ Reply(200)

\* bookingController.js addBookingNote (the second controller's is the same
\* but for trimming the note)
addBookingNote(id, note) ==
  /\ UNCHANGED <<now, jobs, invoices, inflight, leaveRequests, goodsRequests, inventory, json, issued, users, vehicles>>
  /\ IF ~note
       THEN Reply(400) /\ UNCHANGED bookings
     ELSE IF bookings[id] = NoDoc
       THEN Reply(404) /\ UNCHANGED bookings
     ELSE /\ bookings' = [bookings EXCEPT ![id] = PushNote(@)]
          /\ Reply(200)

\* bookingController.js cancelBooking
cancelBooking(id, reason) ==
  /\ UNCHANGED <<now, jobs, invoices, inflight, leaveRequests, goodsRequests, inventory, json, issued, users, vehicles>>
  /\ IF bookings[id] = NoDoc
       THEN Reply(404) /\ UNCHANGED bookings
     ELSE IF bookings[id].status = "completed"
       THEN Reply(400) /\ UNCHANGED bookings
     ELSE IF bookings[id].status = "cancelled"
       THEN Reply(400) /\ UNCHANGED bookings
     ELSE LET cancelled == [bookings[id] EXCEPT !.status = "cancelled"]
          IN /\ bookings' = [bookings EXCEPT ![id] =
                  IF reason THEN PushNote(cancelled) ELSE cancelled]
             /\ Reply(200)

\* the second controller's cancelBooking: the note is always pushed
cancelBooking2(id) ==
  /\ UNCHANGED <<now, jobs, invoices, inflight, leaveRequests, goodsRequests, inventory, json, issued, users, vehicles>>
  /\ IF bookings[id] = NoDoc
       THEN Reply(404) /\ UNCHANGED bookings
     ELSE IF bookings[id].status = "completed"
       THEN Reply(400) /\ UNCHANGED bookings
     ELSE IF bookings[id].status = "cancelled"
       THEN Reply(400) /\ UNCHANGED bookings
     ELSE /\ bookings' = [bookings EXCEPT ![id] = PushNote([@ EXCEPT !.status = "cancelled"])]
          /\ Reply(200)

\* bookingController.js deleteBooking
deleteBooking(id) ==
  /\ UNCHANGED <<now, jobs, invoices, inflight, leaveRequests, goodsRequests, inventory, json, issued, users, vehicles>>
  /\ IF bookings[id] = NoDoc
       THEN Reply(404) /\ UNCHANGED bookings
     ELSE IF bookings[id].status \in {"working", "completed"}
       THEN Reply(400) /\ UNCHANGED bookings
     ELSE /\ bookings' = [bookings EXCEPT ![id] = NoDoc]
          /\ Reply(200)

\* request inputs
CustomerInputs == {"c1", "sa1", "nobody", NULL}
VehicleInputs == {"v1", "v2", "v9"}
DateInputs == Times \cup {Unset}
SlotInputs == validTimeSlots \cup {"08:00-09:00"}
StatusInputs == BookingStatuses \cup {"archived"}
InspectorInputs == {"sa1", "m1", "t1", "nobody", NULL}

BookingBodies ==
  [status : StatusInputs \cup {NULL},
   scheduledDate : DateInputs,
   timeSlot : SlotInputs \cup {NULL},
   completedAt : {Unset, 1}]

InitBooking ==
  /\ now = 1
  /\ resp = 0
  /\ bookings = [b \in BookingIds |-> NoDoc]
  /\ jobs = <<>>
  /\ invoices = <<>>
  /\ inflight = <<>>
  /\ leaveRequests = <<>>
  /\ goodsRequests = <<>>
  /\ inventory = <<>>
  /\ json = NoDoc
  /\ issued = {}
  /\ users = <<>>
  /\ vehicles = <<>>

NextBooking ==
  \/ Tick
  \/ \E c \in CustomerInputs, v \in VehicleInputs, d \in DateInputs, s \in SlotInputs :
        createBooking(c, v, d, s)
  \/ \E c \in CustomerInputs, v \in VehicleInputs, d \in DateInputs, s \in SlotInputs :
        createBooking2(c, v, d, s)
  \/ \E id \in BookingIds, body \in BookingBodies : updateBooking(id, body)
  \/ \E id \in BookingIds, body \in BookingBodies : updateBooking2(id, body)
  \/ \E id \in BookingIds, i \in InspectorInputs : assignInspector(id, i)
  \/ \E id \in BookingIds, i \in InspectorInputs : assignInspector2(id, i)
  \/ \E id \in BookingIds, s \in StatusInputs \cup {NULL}, n \in BOOLEAN :
        updateBookingStatus(id, s, n)
  \/ \E id \in BookingIds, s \in StatusInputs \cup {NULL} : updateBookingStatus2(id, s)
  \/ \E id \in BookingIds, n \in BOOLEAN : addBookingNote(id, n)
  \/ \E id \in BookingIds, r \in BOOLEAN : cancelBooking(id, r)
  \/ \E id \in BookingIds : cancelBooking2(id)
  \/ \E id \in BookingIds : deleteBooking(id)

SpecBooking == InitBooking /\ [][NextBooking]_vars

\* ---------------------------------------------------------------- Job model
MaxLog == 2             \* longest work log kept
MaxShift == 2           \* work-log start and end times range over 0..MaxShift

JobIds == {"j1"}
JobStatuses == {"pending", "working", "completed", "cancelled", "on_hold"}
hourlyRate == 50

\* A mongoose ObjectId and the hex string its toString() returns are values of
\* different types: `===` between them is false whatever they denote.
ObjectId(u) == [oid |-> u]
toString(o) == [str |-> o.oid]
StrictEquals(a, b) == a = b

\* auth.js authenticate: what the handlers find in req.user
ReqUser(caller) == [userId |-> ObjectId(caller), role |-> UserRole[caller]]
\* authenticate admits active users only
Callers == {u \in {"c1", "t1", "sa1", "m1"} : UserStatus[u] = "active"}

\* auth.js authorize(...roles)
authorize(roles, caller) == UserRole[caller] \in roles

RECURSIVE SumHours(_)
SumHours(log) == IF log = <<>> THEN 0 ELSE Head(log).hoursLogged + SumHours(Tail(log))

\* JobSchema.pre("save"): status timestamps, actual hours, labour cost
PreSaveJob(doc, statusModified) ==
  LET stamped ==
        IF ~statusModified THEN doc
        ELSE IF doc.status = "working" /\ doc.startedAt = Unset
          THEN [doc EXCEPT !.startedAt = now]
        ELSE IF doc.status = "completed" /\ doc.completedAt = Unset
          THEN [doc EXCEPT !.completedAt = now]
        ELSE doc
      summed ==
        IF Len(stamped.workLog) > 0
          THEN [stamped EXCEPT !.actualHours = SumHours(stamped.workLog)]
          ELSE stamped
  IN IF summed.actualHours > 0 /\ Len(summed.assignedLabourers) > 0
       THEN [summed EXCEPT !.labourCost = summed.actualHours * hourlyRate]
       ELSE summed

\* JobSchema.methods.addWorkLog
AddWorkLogEntry(doc, labourerId, startTime, endTime) ==
  LET diff == endTime - startTime
      hoursLogged == IF diff < 0 THEN 0 - diff ELSE diff
  IN [doc EXCEPT
        !.workLog = Append(@, [labourer |-> labourerId, hoursLogged |-> hoursLogged]),
        !.assignedLabourers =
           [k \in DOMAIN @ |->
              \* Array.find: only the first matching assignment is updated
              IF /\ toString(@[k].labourer) = toString(labourerId)
                 /\ \A m \in 1..(k - 1) : toString(@[m].labourer) # toString(labourerId)
                THEN [@[k] EXCEPT !.hoursWorked = @ + hoursLogged]
                ELSE @[k]]]

\* job.assignedLabourers.some(a => a.labourer.toString() === userId)
isAssigned(doc, userId) ==
  \E k \in DOMAIN doc.assignedLabourers :
     StrictEquals(toString(doc.assignedLabourers[k].labourer), userId)

\* jobController.js createJob; of the request body the model carries the
\* status and workLog fields
createJob(bookingId, body, caller) ==
  /\ UNCHANGED <<now, bookings, invoices, inflight, leaveRequests, goodsRequests, inventory, json, issued, users, vehicles>>
  /\ IF ~authorize({"service_advisor", "manager", "admin"}, caller)
       THEN Reply(403) /\ UNCHANGED jobs
     ELSE IF ReqUser(caller).role \notin {"service_advisor", "manager", "admin"}
       THEN Reply(403) /\ UNCHANGED jobs
     ELSE IF bookings[bookingId] = NoDoc
       THEN Reply(404) /\ UNCHANGED jobs
     ELSE IF bookings[bookingId].status # "inspecting"
       THEN Reply(400) /\ UNCHANGED jobs
     ELSE IF body.status # NULL /\ body.status \notin JobStatuses   \* enum validator
       THEN Reply(400) /\ UNCHANGED jobs
     ELSE \E id \in DOMAIN jobs :
            /\ jobs[id] = NoDoc
            /\ jobs' = [jobs EXCEPT ![id] =
                 PreSaveJob(
                   [booking |-> bookingId,
                    status |-> IF body.status # NULL THEN body.status ELSE "pending",
                    assignedLabourers |-> <<>>,
                    workLog |-> body.workLog,
                    actualHours |-> 0, labourCost |-> 0,
                    startedAt |-> Unset, completedAt |-> Unset,
                    preWorkInspection |-> FALSE, postWorkInspection |-> "none",
                    approvedAt |-> Unset],
                   body.status # NULL)]
            /\ Reply(201)

jobAllowedTransitions ==
  [s \in JobStatuses |->
     CASE s = "pending" -> {"working"}
       [] s = "working" -> {"completed", "on_hold"}
       [] s = "on_hold" -> {"working"}
       [] OTHER -> {}]       \* allowedTransitions[job.status] is undefined

\* jobController.js updateJobStatus
updateJobStatus(id, status, caller) ==
  /\ UNCHANGED <<now, bookings, invoices, inflight, leaveRequests, goodsRequests, inventory, json, issued, users, vehicles>>
  /\ IF jobs[id] = NoDoc
       THEN Reply(404) /\ UNCHANGED jobs
     ELSE IF ReqUser(caller).role = "technician" /\ ~isAssigned(jobs[id], ReqUser(caller).userId)
       THEN Reply(403) /\ UNCHANGED jobs
     ELSE IF ReqUser(caller).role = "technician" /\ status \notin jobAllowedTransitions[jobs[id].status]
       THEN Reply(400) /\ UNCHANGED jobs
     ELSE IF status \notin JobStatuses                  \* enum validator on save
       THEN Reply(400) /\ UNCHANGED jobs
     ELSE /\ jobs' = [jobs EXCEPT ![id] =
               PreSaveJob([@ EXCEPT !.status = status], status # jobs[id].status)]
          /\ Reply(200)

\* jobController.js assignLabourers
assignLabourers(id, labourerIds, caller) ==
  /\ UNCHANGED <<now, bookings, invoices, inflight, leaveRequests, goodsRequests, inventory, json, issued, users, vehicles>>
  /\ IF ~authorize({"service_advisor", "manager", "admin"}, caller)
       THEN Reply(403) /\ UNCHANGED jobs
     ELSE IF ReqUser(caller).role \notin {"service_advisor", "manager", "admin"}
       THEN Reply(403) /\ UNCHANGED jobs
     ELSE IF jobs[id] = NoDoc
       THEN Reply(404) /\ UNCHANGED jobs
     ELSE IF jobs[id].status # "pending"
       THEN Reply(400) /\ UNCHANGED jobs
     ELSE LET labourers == {u \in Users : /\ \E k \in DOMAIN labourerIds : labourerIds[k] = u
                                            /\ UserRole[u] = "technician"
                                            /\ UserStatus[u] = "active"}
          IN IF Cardinality(labourers) # Len(labourerIds)
               THEN Reply(400) /\ UNCHANGED jobs
             ELSE /\ jobs' = [jobs EXCEPT ![id] =
                       PreSaveJob([@ EXCEPT !.assignedLabourers =
                                      [k \in DOMAIN labourerIds |->
                                         [labourer |-> ObjectId(labourerIds[k]),
                                          hoursWorked |-> 0]]],
                                  FALSE)]
                  /\ Reply(200)

\* jobController.js addWorkLog
addWorkLog(id, startTime, endTime, caller) ==
  /\ UNCHANGED <<now, bookings, invoices, inflight, leaveRequests, goodsRequests, inventory, json, issued, users, vehicles>>
  /\ IF ~authorize({"technician"}, caller)
       THEN Reply(403) /\ UNCHANGED jobs
     ELSE IF ReqUser(caller).role # "technician"
       THEN Reply(403) /\ UNCHANGED jobs
     ELSE IF jobs[id] = NoDoc
       THEN Reply(404) /\ UNCHANGED jobs
     ELSE IF ~isAssigned(jobs[id], ReqUser(caller).userId)
       THEN Reply(403) /\ UNCHANGED jobs
     ELSE IF startTime >= endTime
       THEN Reply(400) /\ UNCHANGED jobs
     ELSE /\ Len(jobs[id].workLog) < MaxLog
          /\ jobs' = [jobs EXCEPT ![id] =
               PreSaveJob(AddWorkLogEntry(@, ReqUser(caller).userId, startTime, endTime),
                          FALSE)]
          /\ Reply(200)

\* jobController.js addInspectionReport
addInspectionReport(id, type, approved, caller) ==
  /\ UNCHANGED <<now, bookings, invoices, inflight, leaveRequests, goodsRequests, inventory, json, issued, users, vehicles>>
  /\ IF ~authorize({"service_advisor", "manager", "admin"}, caller)
       THEN Reply(403) /\ UNCHANGED jobs
     ELSE IF ReqUser(caller).role \notin {"service_advisor", "manager", "admin"}
       THEN Reply(403) /\ UNCHANGED jobs
     ELSE IF jobs[id] = NoDoc
       THEN Reply(404) /\ UNCHANGED jobs
     ELSE IF type \in {"pre", "preWork"}
       THEN /\ jobs' = [jobs EXCEPT ![id] =
                 PreSaveJob([@ EXCEPT !.preWorkInspection = TRUE], FALSE)]
            /\ Reply(200)
     ELSE IF type \in {"post", "postWork"}
       THEN IF jobs[id].status # "completed"
              THEN Reply(400) /\ UNCHANGED jobs
            ELSE /\ jobs' = [jobs EXCEPT ![id] =
                      PreSaveJob(
                        [@ EXCEPT
                           !.postWorkInspection = IF approved THEN "approved" ELSE "unapproved",
                           !.approvedAt = IF approved THEN now ELSE @],
                        FALSE)]
                 /\ Reply(200)
     ELSE Reply(400) /\ UNCHANGED jobs

\* jobController.js updateJob: findByIdAndUpdate writes the body and runs no
\* save hook; of the request body the model carries status and actualHours
updateJob(id, body, caller) ==
  /\ UNCHANGED <<now, bookings, invoices, inflight, leaveRequests, goodsRequests, inventory, json, issued, users, vehicles>>
  /\ IF ~authorize({"service_advisor", "manager", "admin"}, caller)
       THEN Reply(403) /\ UNCHANGED jobs
     ELSE IF ReqUser(caller).role \notin {"service_advisor", "manager", "admin"}
       THEN Reply(403) /\ UNCHANGED jobs
     ELSE IF body.status # NULL /\ body.status \notin JobStatuses   \* enum validator
       THEN Reply(400) /\ UNCHANGED jobs
     ELSE IF jobs[id] = NoDoc
       THEN Reply(404) /\ UNCHANGED jobs
     ELSE /\ jobs' = [jobs EXCEPT ![id] =
               [@ EXCEPT !.status = IF body.status # NULL THEN body.status ELSE @,
                         !.actualHours = IF body.actualHours # Unset
                                           THEN body.actualHours ELSE @]]
          /\ Reply(200)

\* jobController.js deleteJob
deleteJob(id, caller) ==
  /\ UNCHANGED <<now, bookings, invoices, inflight, leaveRequests, goodsRequests, inventory, json, issued, users, vehicles>>
  /\ IF ~authorize({"manager", "admin"}, caller)
       THEN Reply(403) /\ UNCHANGED jobs
     ELSE IF ReqUser(caller).role \notin {"admin", "manager"}
       THEN Reply(403) /\ UNCHANGED jobs
     ELSE IF jobs[id] = NoDoc
       THEN Reply(404) /\ UNCHANGED jobs
     ELSE IF jobs[id].status \in {"working", "completed"}
       THEN Reply(400) /\ UNCHANGED jobs
     ELSE /\ jobs' = [jobs EXCEPT ![id] = NoDoc]
          /\ Reply(200)

\* request inputs
JobStatusInputs == JobStatuses \cup {"archived"}
WorkLogInputs == {<<>>, <<[labourer |-> ObjectId("t1"), hoursLogged |-> 1]>>}
JobCreateBodies == [status : JobStatuses \cup {"archived", NULL}, workLog : WorkLogInputs]
JobUpdateBodies == [status : JobStatuses \cup {"archived", NULL}, actualHours : {Unset, 3}]
LabourerLists == {<<>>, <<"t1">>, <<"t1", "t1">>, <<"t3">>, <<"sa1">>}
HourInputs == 0..MaxShift
InspectionTypes == {"pre", "post", "mid"}

\* a booking as createBooking and assignInspector leave it
InspectingBooking ==
  [customer |-> "c1", vehicle |-> "v1", scheduledDate |-> 1, timeSlot |-> "09:00-11:00",
   status |-> "inspecting", assignedInspector |-> "sa1", completedAt |-> Unset, notes |-> 0]

\* a booking as createBooking leaves it
PendingBooking ==
  [InspectingBooking EXCEPT !.status = "pending", !.assignedInspector = NULL]

InitJob ==
  /\ now = 1
  /\ resp = 0
  /\ bookings = [b \in {"b1", "b2"} |->
                   IF b = "b1" THEN InspectingBooking ELSE PendingBooking]
  /\ jobs = [j \in JobIds |-> NoDoc]
  /\ invoices = <<>>
  /\ inflight = <<>>
  /\ leaveRequests = <<>>
  /\ goodsRequests = <<>>
  /\ inventory = <<>>
  /\ json = NoDoc
  /\ issued = {}
  /\ users = <<>>
  /\ vehicles = <<>>

NextJob ==
  \/ Tick
  \/ \E b \in {"b1", "b2"}, body \in JobCreateBodies, c \in Callers :
        createJob(b, body, c)
  \/ \E id \in JobIds, s \in JobStatusInputs, c \in Callers : updateJobStatus(id, s, c)
  \/ \E id \in JobIds, l \in LabourerLists, c \in Callers : assignLabourers(id, l, c)
  \/ \E id \in JobIds, st \in HourInputs, en \in HourInputs, c \in Callers :
        addWorkLog(id, st, en, c)
  \/ \E id \in JobIds, t \in InspectionTypes, a \in BOOLEAN, c \in Callers :
        addInspectionReport(id, t, a, c)
  \/ \E id \in JobIds, body \in JobUpdateBodies, c \in Callers : updateJob(id, body, c)
  \/ \E id \in JobIds, c \in Callers : deleteJob(id, c)

SpecJob == InitJob /\ [][NextJob]_vars

\* ------------------------------------------------------------ Invoice model
InvoiceIds == {"i1"}
InvoiceStatuses == {"draft", "pending", "paid", "cancelled"}
PaymentMethods == {"cash", "card", "bank_transfer", "online"}

RECURSIVE SumTotals(_)
SumTotals(items) == IF items = <<>> THEN 0 ELSE Head(items).total + SumTotals(Tail(items))

\* items.map(item => ({..., total: item.quantity * item.unitPrice}))
processedItems(items) ==
  [k \in DOMAIN items |->
     [quantity |-> items[k].quantity, unitPrice |-> items[k].unitPrice,
      total |-> items[k].quantity * items[k].unitPrice]]

\* !item.quantity || !item.unitPrice for some item: the map callback throws
ItemsThrow(items) ==
  \E k \in DOMAIN items : items[k].quantity = 0 \/ items[k].unitPrice = 0

\* Invoice.findOne({ booking })
InvoiceForBooking(b) ==
  \E i \in DOMAIN invoices : invoices[i] # NoDoc /\ invoices[i].booking = b

\* invoiceController.js createInvoice up to Invoice.create: the status code of
\* the error it answers with, or 0 when every check passes
createInvoiceChecks(body) ==
  IF body.booking = NULL \/ body.customer = NULL \/ body.items = NoItems \/ body.items = <<>>
    THEN 400
  ELSE IF body.booking \notin DOMAIN bookings \/ bookings[body.booking] = NoDoc
    THEN 404
  ELSE IF bookings[body.booking].status # "completed"
    THEN 400
  ELSE IF InvoiceForBooking(body.booking)
    THEN 400
  ELSE IF UserFindById(body.customer) = NULL
    THEN 404
  ELSE IF UserRole[body.customer] # "customer"
    THEN 400
  ELSE IF bookings[body.booking].customer # body.customer
    THEN 400
  ELSE IF ItemsThrow(body.items)
    THEN 500
  ELSE IF SumTotals(processedItems(body.items)) + body.laborCharges + body.tax - body.discount < 0
    THEN 400
  ELSE IF body.paymentMethod # NULL /\ body.paymentMethod \notin PaymentMethods
    THEN 400                                            \* enum validator
  ELSE 0

\* the document createInvoice hands to Invoice.create (an absent number is 0)
createInvoiceDoc(body) ==
  LET items == processedItems(body.items)
      subtotal == SumTotals(items) + body.laborCharges
  IN [booking |-> body.booking, customer |-> body.customer,
      items |-> items, laborCharges |-> body.laborCharges,
      subtotal |-> subtotal, tax |-> body.tax, discount |-> body.discount,
      total |-> subtotal + body.tax - body.discount,
      status |-> "draft", paymentMethod |-> body.paymentMethod,
      paidAt |-> Unset, notes |-> body.notes]

\* invoiceController.js createInvoice, run to its response
createInvoice(body) ==
  /\ UNCHANGED <<now, bookings, jobs, inflight, leaveRequests, goodsRequests, inventory, json, issued, users, vehicles>>
  /\ IF createInvoiceChecks(body) # 0
       THEN Reply(createInvoiceChecks(body)) /\ UNCHANGED invoices
     ELSE \E id \in DOMAIN invoices :
            /\ invoices[id] = NoDoc
            /\ invoices' = [invoices EXCEPT ![id] = createInvoiceDoc(body)]
            /\ Reply(201)

\* createInvoice from its entry to the last await before Invoice.create
createInvoiceRead(r, body) ==
  /\ UNCHANGED <<now, bookings, jobs, invoices, leaveRequests, goodsRequests, inventory, json, issued, users, vehicles>>
  /\ inflight[r] = NoDoc
  /\ IF createInvoiceChecks(body) # 0
       THEN Reply(createInvoiceChecks(body)) /\ UNCHANGED inflight
     ELSE inflight' = [inflight EXCEPT ![r] = createInvoiceDoc(body)] /\ UNCHANGED resp

\* createInvoice's Invoice.create and response
createInvoiceWrite(r) ==
  /\ UNCHANGED <<now, bookings, jobs, leaveRequests, goodsRequests, inventory, json, issued, users, vehicles>>
  /\ inflight[r] # NoDoc
  /\ \E id \in DOMAIN invoices :
       /\ invoices[id] = NoDoc
       /\ invoices' = [invoices EXCEPT ![id] = inflight[r]]
  /\ inflight' = [inflight EXCEPT ![r] = NoDoc]
  /\ Reply(201)

\* the fields of an update body that are present
Present(body) ==
  {f \in DOMAIN body :
     IF f \in {"laborCharges", "tax", "discount", "paidAt", "subtotal", "total"}
       THEN body[f] # Unset
     ELSE IF f = "items" THEN body[f] # NoItems
     ELSE body[f] # NULL}

\* findByIdAndUpdate(id, updateData): every present field is written
ApplyInvoiceBody(doc, body) ==
  [f \in DOMAIN doc |-> IF f \in Present(body) THEN body[f] ELSE doc[f]]

\* invoiceController.js updateInvoice
updateInvoice(id, body) ==
  /\ UNCHANGED <<now, bookings, jobs, inflight, leaveRequests, goodsRequests, inventory, json, issued, users, vehicles>>
  /\ IF invoices[id] = NoDoc
       THEN Reply(404) /\ UNCHANGED invoices
     ELSE IF /\ invoices[id].status = "paid"
             /\ Present(body) \ {"paymentMethod", "paidAt", "notes"} # {}
       THEN Reply(400) /\ UNCHANGED invoices
     ELSE IF body.items # NoItems /\ ItemsThrow(body.items)
       THEN Reply(500) /\ UNCHANGED invoices
     ELSE LET items == processedItems(body.items)
              \* updateData.laborCharges || invoice.laborCharges
              subtotal == SumTotals(items)
                            + (IF body.laborCharges # Unset THEN body.laborCharges
                                                            ELSE invoices[id].laborCharges)
              taxAmount == IF body.tax # Unset THEN body.tax ELSE invoices[id].tax
              discountAmount == IF body.discount # Unset THEN body.discount
                                                         ELSE invoices[id].discount
              updateData ==
                IF body.items # NoItems
                  THEN [body EXCEPT !.items = items, !.subtotal = subtotal,
                                    !.total = subtotal + taxAmount - discountAmount]
                  ELSE body
          IN IF body.items # NoItems /\ subtotal + taxAmount - discountAmount < 0
               THEN Reply(400) /\ UNCHANGED invoices
             ELSE IF \/ updateData.status # NULL /\ updateData.status \notin InvoiceStatuses
                     \/ /\ updateData.paymentMethod # NULL
                        /\ updateData.paymentMethod \notin PaymentMethods
               THEN Reply(400) /\ UNCHANGED invoices        \* runValidators
             ELSE /\ invoices' = [invoices EXCEPT ![id] = ApplyInvoiceBody(@, updateData)]
                  /\ Reply(200)

\* invoiceController.js updateInvoiceStatus
updateInvoiceStatus(id, status, paymentMethod, paidAt) ==
  /\ UNCHANGED <<now, bookings, jobs, inflight, leaveRequests, goodsRequests, inventory, json, issued, users, vehicles>>
  /\ IF status = NULL \/ status \notin InvoiceStatuses
       THEN Reply(400) /\ UNCHANGED invoices
     ELSE IF invoices[id] = NoDoc
       THEN Reply(404) /\ UNCHANGED invoices
     ELSE IF invoices[id].status = "paid" /\ status # "paid"
       THEN Reply(400) /\ UNCHANGED invoices
     ELSE IF invoices[id].status = "cancelled" /\ status # "cancelled"
       THEN Reply(400) /\ UNCHANGED invoices
     ELSE IF status = "paid" /\ paymentMethod = NULL
       THEN Reply(400) /\ UNCHANGED invoices
     ELSE IF status = "paid" /\ paymentMethod \notin PaymentMethods
       THEN Reply(400) /\ UNCHANGED invoices                \* enum validator on save
     ELSE /\ invoices' = [invoices EXCEPT ![id] =
               IF status = "paid"
                 THEN [@ EXCEPT !.paymentMethod = paymentMethod,
                                !.paidAt = IF paidAt # Unset THEN paidAt ELSE now,
                                !.status = status]
                 ELSE [@ EXCEPT !.status = status]]
          /\ Reply(200)

\* invoiceController.js deleteInvoice
deleteInvoice(id, permanent) ==
  /\ UNCHANGED <<now, bookings, jobs, inflight, leaveRequests, goodsRequests, inventory, json, issued, users, vehicles>>
  /\ IF invoices[id] = NoDoc
       THEN Reply(404) /\ UNCHANGED invoices
     ELSE IF invoices[id].status = "paid"
       THEN Reply(400) /\ UNCHANGED invoices
     ELSE IF permanent = "true"
       THEN invoices' = [invoices EXCEPT ![id] = NoDoc] /\ Reply(200)
     ELSE invoices' = [invoices EXCEPT ![id].status = "cancelled"] /\ Reply(200)

\* request inputs
MaxFields == 2          \* an update body carries at most this many fields

Item(q, p) == [quantity |-> q, unitPrice |-> p]
ItemInputs == {<<Item(2, 50), Item(1, 30)>>, <<Item(1, 30)>>, <<Item(0, 50)>>}
LaborInputs == {Unset, 20}
TaxInputs == {Unset, 10}
PaymentInputs == {NULL, "cash", "cheque"}
NoteInputs == {NULL, "n1"}

\* well-formed creation requests, and requests that break one precondition each
GoodCreateBodies ==
  [booking : {"b1"}, customer : {"c1"}, items : {<<Item(2, 50), Item(1, 30)>>, <<Item(1, 30)>>},
   laborCharges : LaborInputs, tax : TaxInputs, discount : {Unset, 5},
   paymentMethod : {NULL, "cash"}, notes : {NULL}]

BaseCreateBody ==
  [booking |-> "b1", customer |-> "c1", items |-> <<Item(2, 50), Item(1, 30)>>,
   laborCharges |-> 20, tax |-> 10, discount |-> 5, paymentMethod |-> NULL, notes |-> "n1"]

InvoiceCreateBodies ==
  GoodCreateBodies
    \cup {BaseCreateBody}
    \cup {[BaseCreateBody EXCEPT !.booking = b] : b \in {"b2", "b9", NULL}}
    \cup {[BaseCreateBody EXCEPT !.customer = c] : c \in {"sa1", "nobody", NULL}}
    \cup {[BaseCreateBody EXCEPT !.items = i] : i \in {<<>>, NoItems, <<Item(0, 50)>>}}
    \cup {[BaseCreateBody EXCEPT !.paymentMethod = "cheque"]}
    \cup {[BaseCreateBody EXCEPT !.discount = 500]}

\* update bodies: up to MaxFields fields written into an empty body
EmptyBody ==
  [items |-> NoItems, laborCharges |-> Unset, tax |-> Unset, discount |-> Unset,
   subtotal |-> Unset, total |-> Unset, status |-> NULL, paymentMethod |-> NULL,
   paidAt |-> Unset, notes |-> NULL]

FieldInputs(f) ==
  CASE f = "items" -> ItemInputs \cup {<<>>}
    [] f = "laborCharges" -> {20}
    [] f = "tax" -> {10}
    [] f = "discount" -> {5, 500}
    [] f = "status" -> InvoiceStatuses \cup {"void"}
    [] f = "paymentMethod" -> {"cash", "cheque"}
    [] f = "paidAt" -> {1}
    [] f = "notes" -> {"n1"}
    [] OTHER -> {}

RECURSIVE BodiesOf(_)
BodiesOf(n) ==
  IF n = 0 THEN {EmptyBody}
  ELSE LET fewer == BodiesOf(n - 1)
       IN fewer \cup UNION {UNION {{[b EXCEPT ![f] = v] : v \in FieldInputs(f)} :
                                     f \in DOMAIN EmptyBody} : b \in fewer}

InvoiceUpdateBodies == BodiesOf(MaxFields)

\* a booking as the status workflow leaves it at its end
CompletedBooking ==
  [InspectingBooking EXCEPT !.status = "completed", !.completedAt = 1]

InitInvoice ==
  /\ now = 1
  /\ resp = 0
  /\ bookings = [b \in {"b1", "b2"} |->
                   IF b = "b1" THEN CompletedBooking ELSE PendingBooking]
  /\ jobs = <<>>
  /\ invoices = [i \in InvoiceIds |-> NoDoc]
  /\ inflight = <<>>
  /\ leaveRequests = <<>>
  /\ goodsRequests = <<>>
  /\ inventory = <<>>
  /\ json = NoDoc
  /\ issued = {}
  /\ users = <<>>
  /\ vehicles = <<>>

NextInvoice ==
  \/ \E body \in InvoiceCreateBodies : createInvoice(body)
  \/ \E id \in InvoiceIds, body \in InvoiceUpdateBodies : updateInvoice(id, body)
  \/ \E id \in InvoiceIds, s \in InvoiceStatuses \cup {"void", NULL},
        pm \in PaymentInputs, at \in {Unset, 1} : updateInvoiceStatus(id, s, pm, at)
  \/ \E id \in InvoiceIds, p \in {"true", "false"} : deleteInvoice(id, p)

SpecInvoice == InitInvoice /\ [][NextInvoice]_vars

\* two createInvoice requests in flight at once
Requests == {"r1", "r2"}
RaceInvoiceIds == {"i1", "i2"}

InitInvoiceRace ==
  /\ now = 1
  /\ resp = 0
  /\ bookings = [b \in {"b1", "b2"} |->
                   IF b = "b1" THEN CompletedBooking ELSE PendingBooking]
  /\ jobs = <<>>
  /\ invoices = [i \in RaceInvoiceIds |-> NoDoc]
  /\ inflight = [r \in Requests |-> NoDoc]
  /\ leaveRequests = <<>>
  /\ goodsRequests = <<>>
  /\ inventory = <<>>
  /\ json = NoDoc
  /\ issued = {}
  /\ users = <<>>
  /\ vehicles = <<>>

\* the race needs no variety in the amounts
RaceCreateBodies ==
  {body \in InvoiceCreateBodies : body.tax = 10 /\ body.discount = 5 /\ body.paymentMethod # "cash"}

NextInvoiceRace ==
  \/ \E r \in Requests, body \in RaceCreateBodies : createInvoiceRead(r, body)
  \/ \E r \in Requests : createInvoiceWrite(r)
  \/ \E id \in RaceInvoiceIds, p \in {"true", "false"} : deleteInvoice(id, p)

SpecInvoiceRace == InitInvoiceRace /\ [][NextInvoiceRace]_vars

\* ------------------------------------------------------- LeaveRequest model
\* A leave date is an instant counted in ticks, DayLength ticks to the day
\* (the source counts milliseconds, 1000 * 3600 * 24 to the day).  requestId,
\* leaveType and reason are left out of the stored document.
MaxLeaveDate == 4       \* leave dates range over 1..MaxLeaveDate ticks
DayLength == 2          \* ticks per day

LeaveIds == {"l1", "l2"}
LeaveDates == 1..MaxLeaveDate
LeaveStatuses == {"pending", "approved", "rejected"}
employeeRoles == {"technician", "service_advisor", "manager", "admin", "cashier"}

\* an ObjectId reference that is not set
NoRef == [oid |-> NULL]

\* Math.ceil(a / b) for a >= 0
Ceil(a, b) == (a + b - 1) \div b

\* LeaveRequestSchema.pre("save"): totalDays
PreSaveLeave(doc) ==
  IF doc.startDate # Unset /\ doc.endDate # Unset
    THEN [doc EXCEPT !.totalDays = Ceil(doc.endDate - doc.startDate, DayLength) + 1]
    ELSE doc

\* fault variant of alreadyProcessed: only an approved request counts as processed
alreadyProcessedApprovedOnly(doc) == doc.status = "approved"

\* the status test of approveLeaveRequest and rejectLeaveRequest
alreadyProcessed(doc) == doc.status # "pending"

\* fault variant of rangesOverlap: ranges that only share an endpoint pass
rangesOverlapStrict(docStart, docEnd, start, end) == docStart < end /\ docEnd > start

\* the date-range test of the overlap query: startDate <= end and endDate >= start
rangesOverlap(docStart, docEnd, start, end) == docStart <= end /\ docEnd >= start

\* LeaveRequest.findOne({_id: {$ne}, employee, status: {$in: [pending, approved]}, ...})
overlappingLeave(employee, start, end, except) ==
  \E o \in DOMAIN leaveRequests :
     /\ o # except
     /\ leaveRequests[o] # NoDoc
     /\ leaveRequests[o].employee = employee
     /\ leaveRequests[o].status \in {"pending", "approved"}
     /\ rangesOverlap(leaveRequests[o].startDate, leaveRequests[o].endDate, start, end)

\* leaveRequestController.js createLeaveRequest
createLeaveRequest(leaveType, startDate, endDate, reason, caller) ==
  /\ UNCHANGED <<now, bookings, jobs, invoices, inflight, goodsRequests, inventory, json, issued, users, vehicles>>
  /\ LET employeeId == ReqUser(caller).userId
         today == now * DayLength
     IN IF leaveType = NULL \/ startDate = Unset \/ endDate = Unset \/ reason = NULL
          THEN Reply(400) /\ UNCHANGED leaveRequests
        ELSE IF startDate < today
          THEN Reply(400) /\ UNCHANGED leaveRequests
        ELSE IF endDate < startDate
          THEN Reply(400) /\ UNCHANGED leaveRequests
        ELSE IF UserFindById(employeeId.oid) = NULL
          THEN Reply(404) /\ UNCHANGED leaveRequests
        ELSE IF UserRole[employeeId.oid] \notin employeeRoles
          THEN Reply(400) /\ UNCHANGED leaveRequests
        ELSE IF overlappingLeave(employeeId, startDate, endDate, NULL)
          THEN Reply(400) /\ UNCHANGED leaveRequests
        ELSE \E id \in LeaveIds :
               /\ leaveRequests[id] = NoDoc
               /\ leaveRequests' = [leaveRequests EXCEPT ![id] =
                    PreSaveLeave([employee |-> employeeId, startDate |-> startDate,
                                  endDate |-> endDate, status |-> "pending",
                                  approvedBy |-> NoRef, approvedAt |-> Unset,
                                  rejectionReason |-> NULL, totalDays |-> Unset])]
               /\ Reply(201)

\* leaveRequestController.js updateLeaveRequest
updateLeaveRequest(id, startDate, endDate, caller) ==
  /\ UNCHANGED <<now, bookings, jobs, invoices, inflight, goodsRequests, inventory, json, issued, users, vehicles>>
  /\ LET userId == ReqUser(caller).userId
         doc == leaveRequests[id]
         start == IF startDate # Unset THEN startDate ELSE doc.startDate
         end == IF endDate # Unset THEN endDate ELSE doc.endDate
         dated == startDate # Unset \/ endDate # Unset
     IN IF doc = NoDoc
          THEN Reply(404) /\ UNCHANGED leaveRequests
        ELSE IF ~StrictEquals(toString(doc.employee), userId)
          THEN Reply(403) /\ UNCHANGED leaveRequests
        ELSE IF doc.status # "pending"
          THEN Reply(400) /\ UNCHANGED leaveRequests
        ELSE IF dated /\ start < now * DayLength
          THEN Reply(400) /\ UNCHANGED leaveRequests
        ELSE IF dated /\ end < start
          THEN Reply(400) /\ UNCHANGED leaveRequests
        ELSE IF dated /\ overlappingLeave(userId, start, end, id)
          THEN Reply(400) /\ UNCHANGED leaveRequests
        ELSE \* findByIdAndUpdate: no save hook runs, totalDays stays
             /\ leaveRequests' = [leaveRequests EXCEPT ![id] =
                  [@ EXCEPT !.startDate = start, !.endDate = end]]
             /\ Reply(200)

\* leaveRequestController.js deleteLeaveRequest
deleteLeaveRequest(id, caller) ==
  /\ UNCHANGED <<now, bookings, jobs, invoices, inflight, goodsRequests, inventory, json, issued, users, vehicles>>
  /\ LET userId == ReqUser(caller).userId
         doc == leaveRequests[id]
     IN IF doc = NoDoc
          THEN Reply(404) /\ UNCHANGED leaveRequests
        ELSE IF ~StrictEquals(toString(doc.employee), userId)
          THEN Reply(403) /\ UNCHANGED leaveRequests
        ELSE IF doc.status # "pending"
          THEN Reply(400) /\ UNCHANGED leaveRequests
        ELSE /\ leaveRequests' = [leaveRequests EXCEPT ![id] = NoDoc]
             /\ Reply(200)

\* leaveRequestController.js approveLeaveRequest, behind authorize("admin", "manager")
approveLeaveRequest(id, caller) ==
  /\ UNCHANGED <<now, bookings, jobs, invoices, inflight, goodsRequests, inventory, json, issued, users, vehicles>>
  /\ IF ~authorize({"admin", "manager"}, caller)
       THEN Reply(403) /\ UNCHANGED leaveRequests
     ELSE IF leaveRequests[id] = NoDoc
       THEN Reply(404) /\ UNCHANGED leaveRequests
     ELSE IF alreadyProcessed(leaveRequests[id])
       THEN Reply(400) /\ UNCHANGED leaveRequests
     ELSE /\ leaveRequests' = [leaveRequests EXCEPT ![id] =
               PreSaveLeave([@ EXCEPT !.status = "approved",
                                      !.approvedBy = ReqUser(caller).userId,
                                      !.approvedAt = now])]
          /\ Reply(200)

\* leaveRequestController.js rejectLeaveRequest, behind authorize("admin", "manager")
rejectLeaveRequest(id, rejectionReason, caller) ==
  /\ UNCHANGED <<now, bookings, jobs, invoices, inflight, goodsRequests, inventory, json, issued, users, vehicles>>
  /\ IF ~authorize({"admin", "manager"}, caller)
       THEN Reply(403) /\ UNCHANGED leaveRequests
     ELSE IF rejectionReason = NULL
       THEN Reply(400) /\ UNCHANGED leaveRequests
     ELSE IF leaveRequests[id] = NoDoc
       THEN Reply(404) /\ UNCHANGED leaveRequests
     ELSE IF alreadyProcessed(leaveRequests[id])
       THEN Reply(400) /\ UNCHANGED leaveRequests
     ELSE /\ leaveRequests' = [leaveRequests EXCEPT ![id] =
               PreSaveLeave([@ EXCEPT !.status = "rejected",
                                      !.approvedBy = ReqUser(caller).userId,
                                      !.approvedAt = now,
                                      !.rejectionReason = rejectionReason])]
          /\ Reply(200)

\* a customer, an employee who cannot approve, and a manager
LeaveCallers == {c \in Callers : UserRole[c] \in {"customer", "technician", "manager"}}
LeaveTypeInputs == {"annual", NULL}
LeaveDateInputs == LeaveDates \cup {Unset}
ReasonInputs == {"family", NULL}

InitLeave ==
  /\ now = 1
  /\ resp = 0
  /\ bookings = <<>>
  /\ jobs = <<>>
  /\ invoices = <<>>
  /\ inflight = <<>>
  /\ leaveRequests = [l \in LeaveIds |-> NoDoc]
  /\ goodsRequests = <<>>
  /\ inventory = <<>>
  /\ json = NoDoc
  /\ issued = {}
  /\ users = <<>>
  /\ vehicles = <<>>

NextLeave ==
  \/ \E t \in LeaveTypeInputs, s \in LeaveDateInputs, e \in LeaveDateInputs,
        r \in ReasonInputs, c \in LeaveCallers : createLeaveRequest(t, s, e, r, c)
  \/ \E id \in LeaveIds, s \in LeaveDateInputs, e \in LeaveDateInputs, c \in LeaveCallers :
        updateLeaveRequest(id, s, e, c)
  \/ \E id \in LeaveIds, c \in LeaveCallers : deleteLeaveRequest(id, c)
  \/ \E id \in LeaveIds, c \in LeaveCallers : approveLeaveRequest(id, c)
  \/ \E id \in LeaveIds, r \in ReasonInputs, c \in LeaveCallers : rejectLeaveRequest(id, r, c)

SpecLeave == InitLeave /\ [][NextLeave]_vars

\* ------------------------------------------------------ InventoryItem model
\* An identifier string is kept as its prefix and the sequence of its decimal
\* digits, so that string order and numeric order can differ as they do in
\* the source.  Of the item's fields the model keeps itemId, name and
\* currentStock.
MaxStock == 2           \* currentStock ranges over 0..MaxStock
MaxIssued == 3          \* createInventoryItem is followed while fewer itemIds were given out
padWidth == 5
radix == 10

InventoryIds == {"it1", "it2"}

RECURSIVE Digits(_)
\* Number.prototype.toString()
Digits(n) == IF n < radix THEN <<n>> ELSE Digits(n \div radix) \o <<n % radix>>

RECURSIVE padStart(_, _)
\* String.prototype.padStart(width, "0")
padStart(ds, width) == IF Len(ds) >= width THEN ds ELSE padStart(<<0>> \o ds, width)

RECURSIVE parseInt(_)
parseInt(ds) == IF ds = <<>> THEN 0 ELSE parseInt(SubSeq(ds, 1, Len(ds) - 1)) * radix + ds[Len(ds)]

Ident(prefix, n) == [prefix |-> prefix, digits |-> padStart(Digits(n), padWidth)]

RECURSIVE LexLess(_, _)
\* string order of two digit strings behind the same prefix
LexLess(a, b) ==
  IF a = <<>> THEN b # <<>>
  ELSE IF b = <<>> THEN FALSE
  ELSE IF Head(a) # Head(b) THEN Head(a) < Head(b)
  ELSE LexLess(Tail(a), Tail(b))

\* the itemIds stored in a collection that match /^ITM/
ItemIdsOf(inv) ==
  {inv[i].itemId : i \in {j \in DOMAIN inv : inv[j] # NoDoc /\ inv[j].itemId.prefix = "ITM"}}

\* pre("save"): findOne({itemId: /^ITM/}).sort({itemId: -1}), then
\* parseInt(match(/(\d+)$/)[1]) + 1, or 1 without a document or a match
nextNumber(ids) ==
  IF ids = {} THEN 1
  ELSE LET last == CHOOSE x \in ids : \A y \in ids : y = x \/ LexLess(y.digits, x.digits)
       IN IF last.digits = <<>> THEN 1 ELSE parseInt(last.digits) + 1

\* InventoryItemSchema.pre("save"): itemId
PreSaveItem(doc, inv) ==
  IF doc.itemId = NoDoc
    THEN [doc EXCEPT !.itemId = Ident("ITM", nextNumber(ItemIdsOf(inv)))]
    ELSE doc

\* the unique index on itemId
DuplicateItemId(itemId, inv) == \E i \in DOMAIN inv : inv[i] # NoDoc /\ inv[i].itemId = itemId

\* InventoryItem.findOne({name})
ItemNamed(name) == \E i \in DOMAIN inventory : inventory[i] # NoDoc /\ inventory[i].name = name

\* part_000 createInventoryItem; body.itemId is NoDoc when the body has none
createInventoryItem(name, currentStock, itemId) ==
  /\ UNCHANGED <<now, bookings, jobs, invoices, inflight, leaveRequests, goodsRequests, users, vehicles>>
  /\ json' = NoDoc
  /\ IF name = NULL
       THEN Reply(400) /\ UNCHANGED <<inventory, issued>>
     ELSE IF ItemNamed(name)
       THEN Reply(400) /\ UNCHANGED <<inventory, issued>>
     ELSE IF currentStock < 0                         \* schema validator min: 0
       THEN Reply(400) /\ UNCHANGED <<inventory, issued>>
     ELSE LET doc == PreSaveItem([itemId |-> itemId, name |-> name,
                                  currentStock |-> currentStock], inventory)
          IN IF DuplicateItemId(doc.itemId, inventory)    \* E11000
               THEN Reply(400) /\ UNCHANGED <<inventory, issued>>
             ELSE \E id \in InventoryIds :
                    /\ inventory[id] = NoDoc
                    /\ Cardinality(issued) < MaxIssued
                    /\ inventory' = [inventory EXCEPT ![id] = doc]
                    /\ issued' = issued \cup {doc.itemId}
                    /\ Reply(201)

\* part_000 updateInventoryItem; stock.present says whether the body has currentStock
updateInventoryItem(id, stock, itemId) ==
  /\ UNCHANGED <<now, bookings, jobs, invoices, inflight, leaveRequests, goodsRequests, issued, users, vehicles>>
  /\ json' = NoDoc
  /\ IF stock.present /\ stock.value < 0
       THEN Reply(400) /\ UNCHANGED inventory
     ELSE IF inventory[id] = NoDoc
       THEN Reply(404) /\ UNCHANGED inventory
     ELSE \* restrictedFields: itemId is deleted from the body
          /\ inventory' = [inventory EXCEPT ![id].currentStock =
                             IF stock.present THEN stock.value ELSE @]
          /\ Reply(200)

\* fault variant of stockRule: a subtraction of the whole stock is refused too
stockRuleOffByOne(currentStock, quantity, operation) ==
  IF operation = "add"
    THEN [code |-> 200, stock |-> currentStock + quantity]
  ELSE IF currentStock <= quantity
    THEN [code |-> 400, stock |-> currentStock]
  ELSE [code |-> 200, stock |-> currentStock - quantity]

\* the adjustment of updateStock after the item is found: the answer and the stock
stockRule(currentStock, quantity, operation) ==
  IF operation = "add"
    THEN [code |-> 200, stock |-> currentStock + quantity]
  ELSE IF currentStock < quantity
    THEN [code |-> 400, stock |-> currentStock]
  ELSE [code |-> 200, stock |-> currentStock - quantity]

\* the checks of updateStock on the request body
stockInputError(quantity, operation) ==
  \/ quantity = 0 \/ operation = NULL
  \/ operation \notin {"add", "subtract"}
  \/ quantity <= 0

\* part_000 updateStock
updateStock(id, quantity, operation) ==
  /\ UNCHANGED <<now, bookings, jobs, invoices, inflight, leaveRequests, goodsRequests, issued, users, vehicles>>
  /\ json' = NoDoc
  /\ IF stockInputError(quantity, operation)
       THEN Reply(400) /\ UNCHANGED inventory
     ELSE IF inventory[id] = NoDoc
       THEN Reply(404) /\ UNCHANGED inventory
     ELSE LET r == stockRule(inventory[id].currentStock, quantity, operation)
          IN /\ r.stock <= MaxStock
             /\ IF r.stock < 0                    \* item.save(): validator min: 0
                  THEN Reply(400) /\ UNCHANGED inventory
                  ELSE /\ inventory' = [inventory EXCEPT ![id].currentStock = r.stock]
                       /\ Reply(r.code)

\* part_000 deleteInventoryItem
deleteInventoryItem(id) ==
  /\ UNCHANGED <<now, bookings, jobs, invoices, inflight, leaveRequests, goodsRequests, issued, users, vehicles>>
  /\ json' = NoDoc
  /\ IF inventory[id] = NoDoc
       THEN Reply(404) /\ UNCHANGED inventory
       ELSE inventory' = [inventory EXCEPT ![id] = NoDoc] /\ Reply(200)

\* JSON values of the two kinds a response field of bulkUpdateStock can hold
JNum(n) == [num |-> n]
JArr(a) == [arr |-> a]

RECURSIVE ObjectLiteral(_)
\* a JavaScript object literal: the properties are defined in source order,
\* a later property of the same name replacing the earlier one
ObjectLiteral(props) ==
  IF props = <<>> THEN <<>>
  ELSE LET rest == ObjectLiteral(SubSeq(props, 1, Len(props) - 1))
           last == props[Len(props)]
       IN [k \in DOMAIN rest \cup {last[1]} |-> IF k = last[1] THEN last[2] ELSE rest[k]]

\* InventoryItem.findOne({itemId}): the _id of the document, or NULL
FindByItemId(inv, itemId) ==
  IF \E i \in DOMAIN inv : inv[i] # NoDoc /\ inv[i].itemId = itemId
    THEN CHOOSE i \in DOMAIN inv : inv[i] # NoDoc /\ inv[i].itemId = itemId
    ELSE NULL

\* one pass of the loop body of bulkUpdateStock on the collection inv:
\* whether the line is committed, and the collection after it
bulkLine(inv, line) ==
  LET found == FindByItemId(inv, line.itemId)
      failed == [ok |-> FALSE, inv |-> inv]
  IN IF line.itemId = NoDoc \/ line.quantity = 0 \/ line.operation = NULL THEN failed
     ELSE IF line.operation \notin {"add", "subtract"} THEN failed
     ELSE IF found = NULL THEN failed
     ELSE IF line.operation = "subtract" /\ inv[found].currentStock < line.quantity THEN failed
     ELSE LET stock == IF line.operation = "add"
                         THEN inv[found].currentStock + line.quantity
                         ELSE inv[found].currentStock - line.quantity
          IN IF stock < 0 THEN failed       \* item.save() throws: validator min: 0
             ELSE [ok |-> TRUE, inv |-> [inv EXCEPT ![found].currentStock = stock]]

RECURSIVE bulkLoop(_, _)
\* the for loop of bulkUpdateStock: the collection, results and errors after it
bulkLoop(inv, lines) ==
  IF lines = <<>> THEN [inv |-> inv, results |-> <<>>, errors |-> <<>>]
  ELSE LET r == bulkLine(inv, Head(lines))
           rest == bulkLoop(r.inv, Tail(lines))
       IN [inv |-> rest.inv,
           results |-> (IF r.ok THEN <<Head(lines).itemId>> ELSE <<>>) \o rest.results,
           errors |-> (IF r.ok THEN <<>> ELSE <<Head(lines).itemId>>) \o rest.errors]

\* part_000 bulkUpdateStock
bulkUpdateStock(items) ==
  /\ UNCHANGED <<now, bookings, jobs, invoices, inflight, leaveRequests, goodsRequests, issued, users, vehicles>>
  /\ IF items = <<>>
       THEN Reply(400) /\ json' = NoDoc /\ UNCHANGED inventory
     ELSE LET r == bulkLoop(inventory, items)
          IN /\ \A i \in DOMAIN r.inv : r.inv[i] # NoDoc => r.inv[i].currentStock <= MaxStock
             /\ inventory' = r.inv
             /\ json' = ObjectLiteral(<< <<"processed", JNum(Len(r.results))>>,
                                         <<"errors", JNum(Len(r.errors))>>,
                                         <<"results", JArr(r.results)>>,
                                         <<"errors", JArr(r.errors)>> >>)
             /\ Reply(200)

NameInputs == {"n1", NULL}
StockInputs == {-1, 0, MaxStock}
ItemIdInputs == {NoDoc, Ident("ITM", 41)}
StockBodyInputs == {[present |-> FALSE, value |-> 0]} \cup {[present |-> TRUE, value |-> v] : v \in StockInputs}
QuantityInputs == {-1, 0, 1, MaxStock + 1}
OperationInputs == {"add", "subtract", "set", NULL}
\* lines of a bulk request: adjustments of the item ITM00041, one line for an
\* itemId no item has, one without an operation the handler knows
BulkLines ==
  {[itemId |-> Ident("ITM", 41), quantity |-> q, operation |-> o] :
     q \in QuantityInputs, o \in {"add", "subtract"}}
  \cup {[itemId |-> Ident("ITM", 7), quantity |-> 1, operation |-> "add"],
        [itemId |-> Ident("ITM", 41), quantity |-> 1, operation |-> "set"]}
\* items arrays of no, one and two lines
BulkInputs == {<<>>} \cup {<<a>> : a \in BulkLines} \cup {<<a, b>> : a \in BulkLines, b \in BulkLines}

\* collections the item collection can hold at the start: none, or one item
\* left from earlier activity
SeedItems ==
  {NoDoc} \cup {[itemId |-> Ident("ITM", n), name |-> "n0", currentStock |-> MaxStock] :
                  n \in {41, 99999}}

InitInventory ==
  /\ now = 1
  /\ resp = 0
  /\ bookings = <<>>
  /\ jobs = <<>>
  /\ invoices = <<>>
  /\ inflight = <<>>
  /\ leaveRequests = <<>>
  /\ goodsRequests = <<>>
  /\ \E seed \in SeedItems : inventory = [i \in InventoryIds |-> IF i = "it1" THEN seed ELSE NoDoc]
  /\ json = NoDoc
  /\ issued = ItemIdsOf(inventory)
  /\ users = <<>>
  /\ vehicles = <<>>

NextInventory ==
  \/ \E n \in NameInputs, s \in StockInputs, i \in ItemIdInputs : createInventoryItem(n, s, i)
  \/ \E id \in InventoryIds, s \in StockBodyInputs, i \in ItemIdInputs : updateInventoryItem(id, s, i)
  \/ \E id \in InventoryIds, q \in QuantityInputs, o \in OperationInputs : updateStock(id, q, o)
  \/ \E id \in InventoryIds : deleteInventoryItem(id)
  \/ \E items \in BulkInputs : bulkUpdateStock(items)

SpecInventory == InitInventory /\ [][NextInventory]_vars

\* ------------------------------------------------------- GoodsRequest model
\* Of a goods request the model keeps requestId, job, requestedBy, items (each
\* line an inventory item's _id and a quantity), status, approvedBy,
\* approvedAt and rejectionReason.
GoodsIds == {"g1", "g2"}
GoodsStatuses == {"pending", "approved", "rejected", "released"}

\* requestIds stored in the collection
RequestIdsOf(coll) ==
  {coll[i].requestId : i \in {j \in DOMAIN coll : coll[j] # NoDoc /\ coll[j].requestId.prefix = "GR"}}

\* GoodsRequestSchema.pre("save"): a new document without requestId gets GR + next number
PreSaveGoods(doc, isNew, coll) ==
  IF isNew /\ doc.requestId = NoDoc
    THEN [doc EXCEPT !.requestId = Ident("GR", nextNumber(RequestIdsOf(coll)))]
    ELSE doc

\* the per-line test of createGoodsRequest and updateGoodsRequest
invalidLine(line) == line.item = NULL \/ line.quantity = 0 \/ line.quantity < 1

\* fault variant of insufficientStock: one unit short still passes
insufficientStockOffByOne(currentStock, quantity) == currentStock + 1 < quantity

\* the comparison of the stock loop of approveGoodsRequest
insufficientStock(currentStock, quantity) == currentStock < quantity

RECURSIVE checkStockAvailability(_, _)
\* the stock loop of approveGoodsRequest over the populated lines, in order:
\* 200 when it runs through, 400 at the first line short of stock, 500 when
\* a line's item no longer exists (populate gives null and the read throws)
checkStockAvailability(items, inv) ==
  IF items = <<>> THEN 200
  ELSE LET requestItem == Head(items)
           item == inv[requestItem.item]
       IN IF item = NoDoc THEN 500
          ELSE IF insufficientStock(item.currentStock, requestItem.quantity) THEN 400
          ELSE checkStockAvailability(Tail(items), inv)

\* vehicalContrller.js createGoodsRequest, behind
\* authorize("service_advisor", "manager", "admin")
createGoodsRequest(job, items, caller) ==
  /\ UNCHANGED <<now, bookings, jobs, invoices, inflight, leaveRequests, inventory, json, issued, users, vehicles>>
  /\ IF ~authorize({"service_advisor", "manager", "admin"}, caller)
       THEN Reply(403) /\ UNCHANGED goodsRequests
     ELSE IF job = NULL \/ items = <<>>        \* items is an array in every modelled body
       THEN Reply(400) /\ UNCHANGED goodsRequests
     ELSE IF \E k \in DOMAIN items : invalidLine(items[k])
       THEN Reply(400) /\ UNCHANGED goodsRequests
     ELSE IF UserRole[caller] \notin {"service_advisor", "manager", "admin"}
       THEN Reply(403) /\ UNCHANGED goodsRequests
     ELSE \E id \in GoodsIds :
            /\ goodsRequests[id] = NoDoc
            /\ id = "g2" => goodsRequests["g1"] # NoDoc
            /\ goodsRequests' = [goodsRequests EXCEPT ![id] =
                 PreSaveGoods([requestId |-> NoDoc, job |-> job,
                               requestedBy |-> ReqUser(caller).userId,
                               items |-> items, status |-> "pending",
                               approvedBy |-> NoRef, approvedAt |-> Unset,
                               rejectionReason |-> NULL], TRUE, goodsRequests)]
            /\ Reply(201)

\* vehicalContrller.js updateGoodsRequest
updateGoodsRequest(id, items, caller) ==
  /\ UNCHANGED <<now, bookings, jobs, invoices, inflight, leaveRequests, inventory, json, issued, users, vehicles>>
  /\ LET userId == ReqUser(caller).userId
         doc == goodsRequests[id]
         given == items # <<>>
     IN IF doc = NoDoc
          THEN Reply(404) /\ UNCHANGED goodsRequests
        ELSE IF ~StrictEquals(toString(doc.requestedBy), userId)
          THEN Reply(403) /\ UNCHANGED goodsRequests
        ELSE IF doc.status # "pending"
          THEN Reply(400) /\ UNCHANGED goodsRequests
        ELSE IF given /\ \E k \in DOMAIN items : invalidLine(items[k])
          THEN Reply(400) /\ UNCHANGED goodsRequests
        ELSE /\ goodsRequests' = [goodsRequests EXCEPT ![id].items = IF given THEN items ELSE @]
             /\ Reply(200)

\* vehicalContrller.js deleteGoodsRequest
deleteGoodsRequest(id, caller) ==
  /\ UNCHANGED <<now, bookings, jobs, invoices, inflight, leaveRequests, inventory, json, issued, users, vehicles>>
  /\ LET userId == ReqUser(caller).userId
         doc == goodsRequests[id]
     IN IF doc = NoDoc
          THEN Reply(404) /\ UNCHANGED goodsRequests
        ELSE IF ~StrictEquals(toString(doc.requestedBy), userId)
          THEN Reply(403) /\ UNCHANGED goodsRequests
        ELSE IF doc.status # "pending"
          THEN Reply(400) /\ UNCHANGED goodsRequests
        ELSE /\ goodsRequests' = [goodsRequests EXCEPT ![id] = NoDoc]
             /\ Reply(200)

\* vehicalContrller.js approveGoodsRequest, behind authorize("admin", "manager");
\* the department test of the handler is only run for other roles, which the
\* route has turned away
approveGoodsRequest(id, caller) ==
  /\ UNCHANGED <<now, bookings, jobs, invoices, inflight, leaveRequests, inventory, json, issued, users, vehicles>>
  /\ LET doc == goodsRequests[id]
     IN IF ~authorize({"admin", "manager"}, caller)
          THEN Reply(403) /\ UNCHANGED goodsRequests
        ELSE IF doc = NoDoc
          THEN Reply(404) /\ UNCHANGED goodsRequests
        ELSE IF doc.status # "pending"
          THEN Reply(400) /\ UNCHANGED goodsRequests
        ELSE IF checkStockAvailability(doc.items, inventory) # 200
          THEN Reply(checkStockAvailability(doc.items, inventory)) /\ UNCHANGED goodsRequests
        ELSE /\ goodsRequests' = [goodsRequests EXCEPT ![id] =
                  PreSaveGoods([doc EXCEPT !.status = "approved",
                                           !.approvedBy = ReqUser(caller).userId,
                                           !.approvedAt = now], FALSE, goodsRequests)]
             /\ Reply(200)

\* vehicalContrller.js rejectGoodsRequest, behind authorize("admin", "manager")
rejectGoodsRequest(id, rejectionReason, caller) ==
  /\ UNCHANGED <<now, bookings, jobs, invoices, inflight, leaveRequests, inventory, json, issued, users, vehicles>>
  /\ LET doc == goodsRequests[id]
     IN IF ~authorize({"admin", "manager"}, caller)
          THEN Reply(403) /\ UNCHANGED goodsRequests
        ELSE IF rejectionReason = NULL
          THEN Reply(400) /\ UNCHANGED goodsRequests
        ELSE IF doc = NoDoc
          THEN Reply(404) /\ UNCHANGED goodsRequests
        ELSE IF doc.status # "pending"
          THEN Reply(400) /\ UNCHANGED goodsRequests
        ELSE /\ goodsRequests' = [goodsRequests EXCEPT ![id] =
                  PreSaveGoods([doc EXCEPT !.status = "rejected",
                                           !.approvedBy = ReqUser(caller).userId,
                                           !.approvedAt = now,
                                           !.rejectionReason = rejectionReason],
                               FALSE, goodsRequests)]
             /\ Reply(200)

RECURSIVE reduceStock(_, _)
\* the stock reduction releaseGoods leaves as a TODO, as the fault variant
\* below performs it
reduceStock(inv, items) ==
  IF items = <<>> THEN inv
  ELSE LET line == Head(items)
       IN reduceStock(IF inv[line.item] = NoDoc THEN inv
                      ELSE [inv EXCEPT ![line.item].currentStock = @ - line.quantity],
                      Tail(items))

\* fault variant of releaseGoods: the release takes the quantities off the stock
releaseGoodsReducingStock(id, caller) ==
  /\ UNCHANGED <<now, bookings, jobs, invoices, inflight, leaveRequests, json, issued, users, vehicles>>
  /\ LET doc == goodsRequests[id]
     IN IF ~authorize({"admin", "manager"}, caller)
          THEN Reply(403) /\ UNCHANGED <<goodsRequests, inventory>>
        ELSE IF doc = NoDoc
          THEN Reply(404) /\ UNCHANGED <<goodsRequests, inventory>>
        ELSE IF doc.status # "approved"
          THEN Reply(400) /\ UNCHANGED <<goodsRequests, inventory>>
        ELSE /\ goodsRequests' = [goodsRequests EXCEPT ![id].status = "released"]
             /\ inventory' = reduceStock(inventory, doc.items)
             /\ Reply(200)

\* vehicalContrller.js releaseGoods, behind authorize("admin", "manager")
releaseGoods(id, caller) ==
  /\ UNCHANGED <<now, bookings, jobs, invoices, inflight, leaveRequests, inventory, json, issued, users, vehicles>>
  /\ LET doc == goodsRequests[id]
     IN IF ~authorize({"admin", "manager"}, caller)
          THEN Reply(403) /\ UNCHANGED goodsRequests
        ELSE IF doc = NoDoc
          THEN Reply(404) /\ UNCHANGED goodsRequests
        ELSE IF doc.status # "approved"
          THEN Reply(400) /\ UNCHANGED goodsRequests
        ELSE /\ goodsRequests' = [goodsRequests EXCEPT ![id] =
                  PreSaveGoods([doc EXCEPT !.status = "released"], FALSE, goodsRequests)]
             /\ Reply(200)

\* an employee who may neither create nor approve, and a manager
GoodsCallers == {c \in Callers : UserRole[c] \in {"technician", "manager"}}
JobInputs == {"j1", NULL}
\* items arrays: empty, a line with quantity 0, one line on it1 for the
\* whole initial stock, and two lines on it1 and it2
ItemsInputs ==
  {<<>>, <<[item |-> "it1", quantity |-> 0]>>,
   <<[item |-> "it1", quantity |-> MaxStock]>>,
   <<[item |-> "it1", quantity |-> 1], [item |-> "it2", quantity |-> MaxStock]>>}

InitGoods ==
  /\ now = 1
  /\ resp = 0
  /\ bookings = <<>>
  /\ jobs = <<>>
  /\ invoices = <<>>
  /\ inflight = <<>>
  /\ leaveRequests = <<>>
  /\ goodsRequests = [g \in GoodsIds |-> NoDoc]
  /\ inventory = [i \in InventoryIds |->
       [itemId |-> Ident("ITM", IF i = "it1" THEN 1 ELSE 2), name |-> i, currentStock |-> MaxStock]]
  /\ json = NoDoc
  /\ issued = ItemIdsOf(inventory)
  /\ users = <<>>
  /\ vehicles = <<>>

NextGoods ==
  \/ \E j \in JobInputs, items \in ItemsInputs, c \in GoodsCallers : createGoodsRequest(j, items, c)
  \/ \E id \in GoodsIds, items \in ItemsInputs, c \in GoodsCallers : updateGoodsRequest(id, items, c)
  \/ \E id \in GoodsIds, c \in GoodsCallers : deleteGoodsRequest(id, c)
  \/ \E id \in GoodsIds, c \in GoodsCallers : approveGoodsRequest(id, c)
  \/ \E id \in GoodsIds, r \in ReasonInputs, c \in GoodsCallers : rejectGoodsRequest(id, r, c)
  \/ \E id \in GoodsIds, c \in GoodsCallers : releaseGoods(id, c)
  \/ \E id \in InventoryIds, o \in {"add", "subtract"} : updateStock(id, 1, o)
  \/ \E id \in InventoryIds : deleteInventoryItem(id)

SpecGoods == InitGoods /\ [][NextGoods]_vars

\* ---------------------------------------------------------------- User model
\* A userId is kept as the sequence of its UTF-16 code units, the order
\* the sort of the userId query compares by.  Of a user the model keeps
\* userId, email, role, status, password, loginAttempts, lockUntil and
\* lastLogin.
MaxUserNumber == 5      \* registerUser and createUser are followed up to this userId number
zeroChar == 48          \* the code unit of "0"

UserIds == {"u1", "u2", "u3"}
roleValues == {"customer", "technician", "service_advisor", "manager", "admin", "cashier"}

\* rolePrefix: "C", "T", "SA", "M", "A", "CS" as code units
rolePrefix ==
  [customer |-> <<67>>, technician |-> <<84>>, service_advisor |-> <<83, 65>>,
   manager |-> <<77>>, admin |-> <<65>>, cashier |-> <<67, 83>>]

\* `${prefix}${nextNumber.toString().padStart(5, "0")}`
UserIdString(prefix, n) ==
  LET ds == padStart(Digits(n), padWidth)
  IN prefix \o [i \in 1..Len(ds) |-> zeroChar + ds[i]]

\* new RegExp(`^${prefix}`) tested on a userId
startsWith(str, prefix) ==
  Len(str) >= Len(prefix) /\ SubSeq(str, 1, Len(prefix)) = prefix

RECURSIVE trailingDigits(_)
\* userId.match(/(\d+)$/): the digits the string ends with, <<>> when it ends with none
trailingDigits(str) ==
  IF str = <<>> \/ str[Len(str)] \notin zeroChar..(zeroChar + 9) THEN <<>>
  ELSE trailingDigits(SubSeq(str, 1, Len(str) - 1)) \o <<str[Len(str)] - zeroChar>>

\* the userIds stored in a collection that match the prefix
UserIdsOf(coll, prefix) ==
  {coll[i].userId : i \in {j \in DOMAIN coll : coll[j] # NoDoc /\ startsWith(coll[j].userId, prefix)}}

\* findOne({userId: /^prefix/}).sort({userId: -1}), then parseInt(match[1]) + 1
nextUserNumber(coll, prefix) ==
  LET ids == UserIdsOf(coll, prefix)
  IN IF ids = {} THEN 1
     ELSE LET last == CHOOSE a \in ids : \A b \in ids : ~LexLess(a, b)
          IN IF trailingDigits(last) = <<>> THEN 1 ELSE parseInt(trailingDigits(last)) + 1

\* UserSchema.pre("save"): a new user gets the prefix of its role and the next number
PreSaveUser(doc, coll) ==
  [doc EXCEPT !.userId = UserIdString(rolePrefix[doc.role], nextUserNumber(coll, rolePrefix[doc.role]))]

\* bcrypt.hash in hashPasswordMiddleware, and bcrypt.compare in comparePassword
bcryptHash(password) == [bcrypt |-> password]
comparePassword(user, candidatePassword) == bcryptHash(candidatePassword) = user.password

EmailTaken(email) == \E o \in DOMAIN users : users[o] # NoDoc /\ users[o].email = email
DuplicateUserId(userId) == \E o \in DOMAIN users : users[o] # NoDoc /\ users[o].userId = userId

\* User.create: the validators (role enum), the pre-save hook, the unique
\* indexes on email and userId; 201 with the stored document or 400
UserCreate(email, role, password) ==
  IF role \notin roleValues
    THEN Reply(400) /\ UNCHANGED users                     \* ValidationError
  ELSE LET doc == PreSaveUser([userId |-> <<>>, email |-> email, role |-> role,
                               status |-> "active", password |-> bcryptHash(password),
                               loginAttempts |-> 0, lockUntil |-> Unset,
                               lastLogin |-> Unset, passwordResetToken |-> NULL,
                               passwordResetExpires |-> Unset], users)
       IN IF DuplicateUserId(doc.userId)
            THEN Reply(400) /\ UNCHANGED users             \* E11000
          ELSE \E id \in UserIds :
                 /\ users[id] = NoDoc
                 /\ nextUserNumber(users, rolePrefix[role]) <= MaxUserNumber
                 /\ users' = [users EXCEPT ![id] = doc]
                 /\ Reply(201)

\* users.js registerUser; details says whether the body carries the
\* customerDetails / employeeDetails its role asks for
registerUser(email, role, password, details) ==
  /\ UNCHANGED <<now, bookings, jobs, invoices, inflight, leaveRequests, goodsRequests, inventory, json, issued, vehicles>>
  /\ IF EmailTaken(email)
       THEN Reply(400) /\ UNCHANGED users
     ELSE IF role = "customer" /\ ~details
       THEN Reply(400) /\ UNCHANGED users
     ELSE IF role \in {"technician", "service_advisor", "manager"} /\ ~details
       THEN Reply(400) /\ UNCHANGED users
     ELSE UserCreate(email, role, password)

\* UserSchema.virtual("isLocked")
isLocked(user) == user.lockUntil # Unset /\ user.lockUntil > now

\* fault variant of authenticate: the lock is not looked at
authenticateIgnoringLock(header) ==
  IF header = NoDoc THEN 401
  ELSE IF ~header.signed THEN 401
  ELSE IF header.exp <= now THEN 401
  ELSE IF header.sub \notin DOMAIN users \/ users[header.sub] = NoDoc THEN 401
  ELSE IF users[header.sub].status # "active" THEN 403
  ELSE 0

\* auth.js authenticate on an Authorization header: NoDoc for a missing or
\* non-Bearer header, else the token's subject, expiry and whether
\* jwt.verify accepts its form and signature.  The result is the status of
\* the error passed on, or 0 when next() is called with req.user set.
authenticate(header) ==
  IF header = NoDoc THEN 401
  ELSE IF ~header.signed THEN 401                        \* JsonWebTokenError
  ELSE IF header.exp <= now THEN 401                     \* TokenExpiredError
  ELSE IF header.sub \notin DOMAIN users \/ users[header.sub] = NoDoc THEN 401
  ELSE IF users[header.sub].status # "active" THEN 403
  ELSE IF isLocked(users[header.sub]) THEN 423
  ELSE 0

\* req.user as authenticate sets it
RequestUser(header) ==
  [userId |-> ObjectId(header.sub), role |-> users[header.sub].role,
   status |-> users[header.sub].status]

\* authenticate followed by authorize(...roles) on a route
authenticateAndAuthorize(header, roles) ==
  IF authenticate(header) # 0 THEN authenticate(header)
  ELSE IF RequestUser(header).role \notin roles THEN 403
  ELSE 0

\* users.js getProfile, behind authenticate
getProfile(header) ==
  /\ UNCHANGED <<now, bookings, jobs, invoices, inflight, leaveRequests, goodsRequests, inventory, issued, users, vehicles>>
  /\ IF authenticate(header) # 0
       THEN Reply(authenticate(header)) /\ json' = NoDoc
     ELSE Reply(200) /\ json' = [user |-> RequestUser(header)]

\* users.js createUser, behind authenticate and authorize("admin", "manager")
createUser(email, role, password, header) ==
  /\ UNCHANGED <<now, bookings, jobs, invoices, inflight, leaveRequests, goodsRequests, inventory, json, issued, vehicles>>
  /\ IF authenticateAndAuthorize(header, {"admin", "manager"}) # 0
       THEN Reply(authenticateAndAuthorize(header, {"admin", "manager"})) /\ UNCHANGED users
     ELSE IF EmailTaken(email)
       THEN Reply(400) /\ UNCHANGED users
     ELSE UserCreate(email, role, password)

\* users.js deleteUser, behind authenticate and authorize("admin")
deleteUser(id, header) ==
  /\ UNCHANGED <<now, bookings, jobs, invoices, inflight, leaveRequests, goodsRequests, inventory, json, issued, vehicles>>
  /\ IF authenticateAndAuthorize(header, {"admin"}) # 0
       THEN Reply(authenticateAndAuthorize(header, {"admin"})) /\ UNCHANGED users
     ELSE IF users[id] = NoDoc
       THEN Reply(404) /\ UNCHANGED users
     ELSE users' = [users EXCEPT ![id] = NoDoc] /\ Reply(200)

\* a stored user with the schema defaults
SeedUser(userId, email, role) ==
  [userId |-> userId, email |-> email, role |-> role, status |-> "active",
   password |-> bcryptHash("p1"), loginAttempts |-> 0, lockUntil |-> Unset,
   lastLogin |-> Unset, passwordResetToken |-> NULL, passwordResetExpires |-> Unset]

\* a token generateToken signed for the user, not yet expired
Bearer(sub) == [sub |-> sub, exp |-> MaxTime + MaxTime + 1, signed |-> TRUE]

EmailInputs == {"e1", "e2", "e3"}
RoleInputs == {"customer", "cashier", "technician", "guest"}

\* the admin, and beside it nobody, a cashier or a customer from earlier activity
InitUserIds ==
  /\ now = 1
  /\ resp = 0
  /\ bookings = <<>>
  /\ jobs = <<>>
  /\ invoices = <<>>
  /\ inflight = <<>>
  /\ leaveRequests = <<>>
  /\ goodsRequests = <<>>
  /\ inventory = <<>>
  /\ json = NoDoc
  /\ issued = {}
  /\ \E seed \in {NoDoc, SeedUser(UserIdString(rolePrefix["cashier"], 3), "e2", "cashier"),
                   SeedUser(UserIdString(rolePrefix["customer"], 2), "e2", "customer")} :
        users = [u \in UserIds |->
                   IF u = "u1" THEN SeedUser(UserIdString(rolePrefix["admin"], 1), "e1", "admin")
                   ELSE IF u = "u2" THEN seed ELSE NoDoc]
  /\ vehicles = <<>>

NextUserIds ==
  \/ \E e \in EmailInputs, r \in RoleInputs, d \in BOOLEAN : registerUser(e, r, "p1", d)
  \/ \E e \in EmailInputs, r \in RoleInputs, u \in UserIds : createUser(e, r, "p1", Bearer(u))
  \/ \E id \in UserIds, u \in UserIds : deleteUser(id, Bearer(u))

SpecUserIds == InitUserIds /\ [][NextUserIds]_vars

\* ------------------------------------------------------- login and lockout
MaxClock == 3           \* the clock of the account handlers runs over 1..MaxClock
MaxAttempts == 6        \* failed logins are followed while loginAttempts is below this
lockTime == 1           \* the 30 minutes of a lockout, in ticks of the clock
maxLoginAttempts == 5

\* the clock of the account handlers moves on
ClockTick ==
  /\ now < MaxClock
  /\ now' = now + 1
  /\ UNCHANGED <<resp, bookings, jobs, invoices, inflight, leaveRequests, goodsRequests, inventory, json, issued, users, vehicles>>

\* User.findOne({ email }): the _id of the user, or NULL
FindByEmail(email) ==
  IF \E o \in DOMAIN users : users[o] # NoDoc /\ users[o].email = email
    THEN CHOOSE o \in DOMAIN users : users[o] # NoDoc /\ users[o].email = email
    ELSE NULL

\* fault variant of failedLogin: the lock is set only when the counter is exactly at the limit
failedLoginLockOnce(user) ==
  LET counted == [user EXCEPT !.loginAttempts = @ + 1]
  IN IF counted.loginAttempts = maxLoginAttempts
       THEN [counted EXCEPT !.lockUntil = now + lockTime]
       ELSE counted

\* the branch of loginUser for a password that does not compare
failedLogin(user) ==
  LET counted == [user EXCEPT !.loginAttempts = @ + 1]
  IN IF counted.loginAttempts >= maxLoginAttempts
       THEN [counted EXCEPT !.lockUntil = now + lockTime]
       ELSE counted

\* fault variant of successfulLogin: the counter is left as it is
successfulLoginKeepingCount(user) == [user EXCEPT !.lastLogin = now]

\* the branch of loginUser for a password that compares
successfulLogin(user) ==
  LET reset == IF user.loginAttempts > 0
                 THEN [user EXCEPT !.loginAttempts = 0, !.lockUntil = Unset]
                 ELSE user
  IN [reset EXCEPT !.lastLogin = now]

\* users.js loginUser
loginUser(email, password) ==
  /\ UNCHANGED <<now, bookings, jobs, invoices, inflight, leaveRequests, goodsRequests, inventory, issued, vehicles>>
  /\ LET id == FindByEmail(email)
     IN IF email = NULL \/ password = NULL
          THEN Reply(400) /\ json' = NoDoc /\ UNCHANGED users
        ELSE IF id = NULL
          THEN Reply(401) /\ json' = NoDoc /\ UNCHANGED users
        ELSE IF isLocked(users[id])
          THEN Reply(423) /\ json' = NoDoc /\ UNCHANGED users
        ELSE IF users[id].status # "active"
          THEN Reply(403) /\ json' = NoDoc /\ UNCHANGED users
        ELSE IF ~comparePassword(users[id], password)
          THEN /\ users[id].loginAttempts < MaxAttempts
               /\ users' = [users EXCEPT ![id] = failedLogin(@)]
               /\ Reply(401) /\ json' = NoDoc
        ELSE /\ users' = [users EXCEPT ![id] = successfulLogin(@)]
             /\ Reply(200)
             /\ json' = [token |-> [sub |-> id, exp |-> now + MaxClock, signed |-> TRUE]]

\* users.js forgotPassword; the random token is one value here
forgotPassword(email) ==
  /\ UNCHANGED <<now, bookings, jobs, invoices, inflight, leaveRequests, goodsRequests, inventory, issued, vehicles>>
  /\ json' = NoDoc
  /\ IF email = NULL
       THEN Reply(400) /\ UNCHANGED users
     ELSE IF FindByEmail(email) = NULL
       THEN Reply(404) /\ UNCHANGED users
     ELSE /\ users' = [users EXCEPT ![FindByEmail(email)] =
               [@ EXCEPT !.passwordResetToken = "rt",
                         !.passwordResetExpires = now + lockTime + lockTime]]
          /\ Reply(200)

\* User.findOne({ passwordResetToken: token, passwordResetExpires: { $gt: Date.now() } })
FindByResetToken(token) ==
  IF \E o \in DOMAIN users : /\ users[o] # NoDoc
                             /\ users[o].passwordResetToken = token
                             /\ users[o].passwordResetExpires > now
    THEN CHOOSE o \in DOMAIN users : /\ users[o] # NoDoc
                                     /\ users[o].passwordResetToken = token
                                     /\ users[o].passwordResetExpires > now
    ELSE NULL

\* what resetPassword and adminResetPassword assign before user.save()
PasswordReset(user, newPassword) ==
  [user EXCEPT !.password = bcryptHash(newPassword),
               !.passwordResetToken = NULL, !.passwordResetExpires = Unset,
               !.loginAttempts = 0, !.lockUntil = Unset]

\* users.js resetPassword
resetPassword(token, newPassword) ==
  /\ UNCHANGED <<now, bookings, jobs, invoices, inflight, leaveRequests, goodsRequests, inventory, issued, vehicles>>
  /\ json' = NoDoc
  /\ IF token = NULL \/ newPassword = NULL
       THEN Reply(400) /\ UNCHANGED users
     ELSE IF FindByResetToken(token) = NULL
       THEN Reply(400) /\ UNCHANGED users
     ELSE /\ users' = [users EXCEPT ![FindByResetToken(token)] = PasswordReset(@, newPassword)]
          /\ Reply(200)

\* users.js adminResetPassword, behind authenticate and authorize("admin", "manager")
adminResetPassword(id, newPassword, header) ==
  /\ UNCHANGED <<now, bookings, jobs, invoices, inflight, leaveRequests, goodsRequests, inventory, issued, vehicles>>
  /\ json' = NoDoc
  /\ IF authenticateAndAuthorize(header, {"admin", "manager"}) # 0
       THEN Reply(authenticateAndAuthorize(header, {"admin", "manager"})) /\ UNCHANGED users
     ELSE IF newPassword = NULL
       THEN Reply(400) /\ UNCHANGED users
     ELSE IF id \notin DOMAIN users \/ users[id] = NoDoc
       THEN Reply(404) /\ UNCHANGED users
     ELSE /\ users' = [users EXCEPT ![id] = PasswordReset(@, newPassword)]
          /\ Reply(200)

\* users.js updateUserStatus, behind authenticate and authorize("admin", "manager")
updateUserStatus(id, status, header) ==
  /\ UNCHANGED <<now, bookings, jobs, invoices, inflight, leaveRequests, goodsRequests, inventory, issued, vehicles>>
  /\ json' = NoDoc
  /\ IF authenticateAndAuthorize(header, {"admin", "manager"}) # 0
       THEN Reply(authenticateAndAuthorize(header, {"admin", "manager"})) /\ UNCHANGED users
     ELSE IF status = NULL \/ status \notin {"active", "inactive", "suspended", "terminated"}
       THEN Reply(400) /\ UNCHANGED users
     ELSE IF id \notin DOMAIN users \/ users[id] = NoDoc
       THEN Reply(404) /\ UNCHANGED users
     ELSE /\ users' = [users EXCEPT ![id].status = status]
          /\ Reply(200)

AccountIds == {"u1", "u2"}
LoginEmailInputs == {"e1", "e9", NULL}
PasswordInputs == {"p1", "p2", NULL}
\* tokens signed for the customer and for the admin
LoginHeaders == {Bearer(u) : u \in AccountIds}

\* a customer and an admin, as registered
InitLogin ==
  /\ now = 1
  /\ resp = 0
  /\ bookings = <<>>
  /\ jobs = <<>>
  /\ invoices = <<>>
  /\ inflight = <<>>
  /\ leaveRequests = <<>>
  /\ goodsRequests = <<>>
  /\ inventory = <<>>
  /\ json = NoDoc
  /\ issued = {}
  /\ users = [u \in AccountIds |->
       IF u = "u1" THEN SeedUser(UserIdString(rolePrefix["customer"], 1), "e1", "customer")
                   ELSE SeedUser(UserIdString(rolePrefix["admin"], 1), "e2", "admin")]
  /\ vehicles = <<>>

NextLogin ==
  \/ ClockTick
  \/ \E e \in LoginEmailInputs, p \in PasswordInputs : loginUser(e, p)
  \/ \E e \in LoginEmailInputs : forgotPassword(e)
  \/ \E t \in {"rt", "xx", NULL}, p \in {"p2", NULL} : resetPassword(t, p)
  \/ \E id \in {"u1", "u9"}, p \in {"p2", NULL}, h \in LoginHeaders : adminResetPassword(id, p, h)

SpecLogin == InitLogin /\ [][NextLogin]_vars

\* Authorization headers: none, and tokens for the customer, the admin and a
\* subject that is no user, well signed or not, expired at the start or not
GateHeaders ==
  {NoDoc} \cup [sub : {"u1", "u2", "u9"}, exp : {1, MaxClock + 1}, signed : BOOLEAN]

NextGate ==
  \/ ClockTick
  \/ \E h \in GateHeaders : getProfile(h)
  \/ \E p \in {"p1", "p2"} : loginUser("e1", p)
  \/ \E id \in AccountIds, s \in {"active", "suspended", "gone"}, h \in LoginHeaders :
        updateUserStatus(id, s, h)
  \/ \E id \in AccountIds, h \in LoginHeaders : deleteUser(id, h)

SpecGate == InitLogin /\ [][NextGate]_vars

\* ------------------------------------------------- invoices of one customer
AccessIds == {"u1", "u2", "u3"}

\* Invoice.find({ customer: customerId }): the _ids of the customer's invoices
InvoicesOfCustomer(customerId) ==
  {i \in DOMAIN invoices : invoices[i] # NoDoc /\ invoices[i].customer = customerId}

\* invoiceController.js getInvoicesByCustomer, on GET /customer/:customerId
\* behind authenticate
getInvoicesByCustomer(customerId, header) ==
  /\ UNCHANGED <<now, bookings, jobs, invoices, inflight, leaveRequests, goodsRequests, inventory, issued, users, vehicles>>
  /\ IF authenticate(header) # 0
       THEN Reply(authenticate(header)) /\ json' = NoDoc
     ELSE IF customerId \notin DOMAIN users \/ users[customerId] = NoDoc
       THEN Reply(404) /\ json' = NoDoc
     ELSE IF users[customerId].role # "customer"
       THEN Reply(400) /\ json' = NoDoc
     ELSE /\ Reply(200)
          /\ json' = [requestedBy |-> RequestUser(header).userId,
                      invoices |-> InvoicesOfCustomer(customerId)]

\* an invoice as createInvoice stores it for a customer, without items
SeedInvoice(customer) ==
  createInvoiceDoc([booking |-> "b1", customer |-> customer, items |-> <<>>,
                    laborCharges |-> 20, tax |-> Unset, discount |-> Unset,
                    paymentMethod |-> NULL, notes |-> NULL])

\* two customers with an invoice each, and an admin
InitAccess ==
  /\ now = 1
  /\ resp = 0
  /\ bookings = <<>>
  /\ jobs = <<>>
  /\ invoices = [i \in RaceInvoiceIds |-> SeedInvoice(IF i = "i1" THEN "u1" ELSE "u3")]
  /\ inflight = <<>>
  /\ leaveRequests = <<>>
  /\ goodsRequests = <<>>
  /\ inventory = <<>>
  /\ json = NoDoc
  /\ issued = {}
  /\ users = [u \in AccessIds |->
       IF u = "u2" THEN SeedUser(UserIdString(rolePrefix["admin"], 1), "e2", "admin")
       ELSE SeedUser(UserIdString(rolePrefix["customer"], IF u = "u1" THEN 1 ELSE 2),
                     IF u = "u1" THEN "e1" ELSE "e3", "customer")]
  /\ vehicles = <<>>

NextAccess ==
  \/ ClockTick
  \/ \E c \in AccessIds \cup {"u9"}, h \in GateHeaders \cup {Bearer("u3")} :
        getInvoicesByCustomer(c, h)
  \/ \E id \in AccessIds, s \in {"active", "suspended"}, h \in LoginHeaders :
        updateUserStatus(id, s, h)
  \/ \E id \in AccessIds, h \in LoginHeaders : deleteUser(id, h)

SpecAccess == InitAccess /\ [][NextAccess]_vars

\* ------------------------------------------------ two bookings and one slot
SlotBookingIds == {"b1", "b2"}
\* update bodies that move a booking to a date or slot, or set its status
SlotBodies ==
  [status : {NULL, "pending", "completed"},
   scheduledDate : {Unset, MaxTime},
   timeSlot : {NULL, "11:00-13:00"},
   completedAt : {Unset}]

InitSlots ==
  /\ now = 1
  /\ resp = 0
  /\ bookings = [b \in SlotBookingIds |-> NoDoc]
  /\ jobs = <<>>
  /\ invoices = <<>>
  /\ inflight = <<>>
  /\ leaveRequests = <<>>
  /\ goodsRequests = <<>>
  /\ inventory = <<>>
  /\ json = NoDoc
  /\ issued = {}
  /\ users = <<>>
  /\ vehicles = <<>>

\* the handlers of bookingController.js that write a booking
NextSlots ==
  \/ \E d \in {1, MaxTime}, s \in validTimeSlots : createBooking("c1", "v1", d, s)
  \/ \E id \in SlotBookingIds, body \in SlotBodies : updateBooking(id, body)
  \/ \E id \in SlotBookingIds, s \in {"pending", "working", "completed"} :
        updateBookingStatus(id, s, FALSE)
  \/ \E id \in SlotBookingIds : assignInspector(id, "sa1")
  \/ \E id \in SlotBookingIds : cancelBooking(id, FALSE)

SpecSlots == InitSlots /\ [][NextSlots]_vars

\* -------------------------------------------------------------- Vehicle model
\* Of a vehicle the model keeps registrationNumber, owner and mileage.
MaxMileage == 2         \* mileage ranges over 0..MaxMileage

VehicleIds == {"w1", "w2"}

\* String.prototype.toUpperCase on the registration numbers of the model
toUpperCase(s) == IF s = "ab1" THEN "AB1" ELSE s

RegistrationTaken(registrationNumber, except) ==
  \E o \in DOMAIN vehicles :
     o # except /\ vehicles[o] # NoDoc /\ vehicles[o].registrationNumber = registrationNumber

\* vehicalContrller.js createVehicle, behind authorize("admin", "manager", "service_advisor")
createVehicle(registrationNumber, owner, mileage, caller) ==
  /\ UNCHANGED <<now, bookings, jobs, invoices, inflight, leaveRequests, goodsRequests, inventory, json, issued, users>>
  /\ IF ~authorize({"admin", "manager", "service_advisor"}, caller)
       THEN Reply(403) /\ UNCHANGED vehicles
     ELSE IF registrationNumber = NULL \/ owner = NULL
       THEN Reply(400) /\ UNCHANGED vehicles
     ELSE IF RegistrationTaken(toUpperCase(registrationNumber), NULL)
       THEN Reply(400) /\ UNCHANGED vehicles
     ELSE IF UserFindById(owner) = NULL
       THEN Reply(404) /\ UNCHANGED vehicles
     ELSE IF UserRole[owner] # "customer"
       THEN Reply(400) /\ UNCHANGED vehicles
     ELSE IF mileage < 0                                    \* schema validator min: 0
       THEN Reply(400) /\ UNCHANGED vehicles
     ELSE \E id \in VehicleIds :
            /\ vehicles[id] = NoDoc
            /\ id = "w2" => vehicles["w1"] # NoDoc
            /\ vehicles' = [vehicles EXCEPT ![id] =
                 [registrationNumber |-> toUpperCase(registrationNumber),
                  owner |-> owner, mileage |-> mileage]]   \* mileage || 0
            /\ Reply(201)

\* vehicalContrller.js updateVehicle, behind authorize("admin", "manager",
\* "service_advisor"); body.mileage.present says whether the body has mileage
updateVehicle(id, body, caller) ==
  /\ UNCHANGED <<now, bookings, jobs, invoices, inflight, leaveRequests, goodsRequests, inventory, json, issued, users>>
  /\ LET registrationNumber == IF body.registrationNumber # NULL
                                 THEN toUpperCase(body.registrationNumber) ELSE NULL
     IN IF ~authorize({"admin", "manager", "service_advisor"}, caller)
          THEN Reply(403) /\ UNCHANGED vehicles
        ELSE IF registrationNumber # NULL /\ RegistrationTaken(registrationNumber, id)
          THEN Reply(400) /\ UNCHANGED vehicles
        ELSE IF body.mileage.present /\ body.mileage.value < 0   \* runValidators, min: 0
          THEN Reply(400) /\ UNCHANGED vehicles
        ELSE IF vehicles[id] = NoDoc
          THEN Reply(404) /\ UNCHANGED vehicles
        ELSE /\ vehicles' = [vehicles EXCEPT ![id] =
                  [@ EXCEPT !.registrationNumber =
                              IF registrationNumber # NULL THEN registrationNumber ELSE @,
                            !.mileage = IF body.mileage.present THEN body.mileage.value ELSE @]]
             /\ Reply(200)

\* vehicalContrller.js updateVehicleMileage, behind authorize("admin",
\* "manager", "service_advisor", "technician")
updateVehicleMileage(id, mileage, caller) ==
  /\ UNCHANGED <<now, bookings, jobs, invoices, inflight, leaveRequests, goodsRequests, inventory, json, issued, users>>
  /\ IF ~authorize({"admin", "manager", "service_advisor", "technician"}, caller)
       THEN Reply(403) /\ UNCHANGED vehicles
     ELSE IF mileage = 0 \/ mileage < 0
       THEN Reply(400) /\ UNCHANGED vehicles
     ELSE IF vehicles[id] = NoDoc
       THEN Reply(404) /\ UNCHANGED vehicles
     ELSE IF mileage < vehicles[id].mileage
       THEN Reply(400) /\ UNCHANGED vehicles
     ELSE /\ vehicles' = [vehicles EXCEPT ![id].mileage = mileage]
          /\ Reply(200)

MileageInputs == (-1)..MaxMileage
RegistrationInputs == {"ab1", "AB1", "CD2", "EF3"}
VehicleBodies ==
  [registrationNumber : RegistrationInputs \cup {NULL},
   mileage : {[present |-> FALSE]} \cup [present : {TRUE}, value : MileageInputs]]

InitVehicle ==
  /\ now = 1
  /\ resp = 0
  /\ bookings = <<>>
  /\ jobs = <<>>
  /\ invoices = <<>>
  /\ inflight = <<>>
  /\ leaveRequests = <<>>
  /\ goodsRequests = <<>>
  /\ inventory = <<>>
  /\ json = NoDoc
  /\ issued = {}
  /\ users = <<>>
  /\ vehicles = [v \in VehicleIds |-> NoDoc]

NextVehicle ==
  \/ \E r \in RegistrationInputs \cup {NULL}, o \in {"c1", "sa1"}, k \in MileageInputs, c \in Callers :
        createVehicle(r, o, k, c)
  \/ \E id \in VehicleIds, body \in VehicleBodies, c \in Callers : updateVehicle(id, body, c)
  \/ \E id \in VehicleIds, k \in MileageInputs, c \in Callers : updateVehicleMileage(id, k, c)

SpecVehicle == InitVehicle /\ [][NextVehicle]_vars

\* ------------------------------------------------- booking identifier race
MaxBookingNumber == 3   \* Booking.create is followed up to this bookingId number

RaceBookingIds == {"b1", "b2", "b3"}

\* the bookingIds stored in a collection that match /^BK/
BookingIdsOf(coll) ==
  {coll[b].bookingId : b \in {o \in DOMAIN coll : coll[o] # NoDoc /\ coll[o].bookingId.prefix = "BK"}}

\* BookingSchema.pre("save"): bookingId of a new document that has none
PreSaveBooking(doc, coll) ==
  IF doc.bookingId = NoDoc
    THEN [doc EXCEPT !.bookingId = Ident("BK", nextNumber(BookingIdsOf(coll)))]
    ELSE doc

\* the index the schema option `unique: true` puts on bookingId
NoUniqueIndex(bookingId) == FALSE

\* the unique index on bookingId
DuplicateBookingId(bookingId) ==
  \E o \in DOMAIN bookings : bookings[o] # NoDoc /\ bookings[o].bookingId = bookingId

\* createBooking from its entry to the hook's findOne of the last bookingId,
\* the last await before the insert
createBookingRead(r, customer, vehicle, scheduledDate, timeSlot) ==
  /\ UNCHANGED <<now, bookings, jobs, invoices, leaveRequests, goodsRequests, inventory, issued, users, vehicles>>
  /\ inflight[r] = NoDoc
  /\ json' = NoDoc
  /\ IF customer = NULL \/ vehicle = NULL \/ scheduledDate = Unset \/ timeSlot = NULL
       THEN Reply(400) /\ UNCHANGED inflight
     ELSE IF timeSlot \notin validTimeSlots
       THEN Reply(400) /\ UNCHANGED inflight
     ELSE IF UserFindById(customer) = NULL
       THEN Reply(404) /\ UNCHANGED inflight
     ELSE IF UserRole[customer] # "customer"
       THEN Reply(400) /\ UNCHANGED inflight
     ELSE IF vehicle \notin Vehicles
       THEN Reply(404) /\ UNCHANGED inflight
     ELSE IF VehicleOwner[vehicle] # customer
       THEN Reply(400) /\ UNCHANGED inflight
     ELSE IF SlotTaken(scheduledDate, timeSlot, NULL)
       THEN Reply(400) /\ UNCHANGED inflight
     ELSE IF scheduledDate < Today
       THEN Reply(400) /\ UNCHANGED inflight
     ELSE LET doc == PreSaveBooking(
                       [bookingId |-> NoDoc, customer |-> customer, vehicle |-> vehicle,
                        scheduledDate |-> scheduledDate, timeSlot |-> timeSlot,
                        status |-> "pending", assignedInspector |-> NULL,
                        completedAt |-> Unset, notes |-> 0], bookings)
          IN /\ parseInt(doc.bookingId.digits) <= MaxBookingNumber
             /\ inflight' = [inflight EXCEPT ![r] = doc]
             /\ UNCHANGED resp

\* createBooking's insert and response; a duplicate key is answered by the
\* error handler (E11000 -> 400, "bookingId: '...' already exists")
createBookingWrite(r) ==
  /\ UNCHANGED <<now, jobs, invoices, leaveRequests, goodsRequests, inventory, issued, users, vehicles>>
  /\ inflight[r] # NoDoc
  /\ inflight' = [inflight EXCEPT ![r] = NoDoc]
  /\ IF DuplicateBookingId(inflight[r].bookingId)
       THEN /\ Reply(400)
            /\ json' = [msg |-> [field |-> "bookingId", value |-> inflight[r].bookingId]]
            /\ UNCHANGED bookings
     ELSE \E id \in DOMAIN bookings :
            /\ bookings[id] = NoDoc
            /\ bookings' = [bookings EXCEPT ![id] = inflight[r]]
            /\ json' = NoDoc
            /\ Reply(201)

InitIdRace ==
  /\ now = 1
  /\ resp = 0
  /\ bookings = [b \in RaceBookingIds |-> NoDoc]
  /\ jobs = <<>>
  /\ invoices = <<>>
  /\ inflight = [r \in Requests |-> NoDoc]
  /\ leaveRequests = <<>>
  /\ goodsRequests = <<>>
  /\ inventory = <<>>
  /\ json = NoDoc
  /\ issued = {}
  /\ users = <<>>
  /\ vehicles = <<>>

\* two createBooking requests in flight at once, and deleteBooking
NextIdRace ==
  \/ \E r \in Requests, c \in {"c1", "sa1"}, d \in {1, MaxTime}, s \in {"09:00-11:00", "11:00-13:00"} :
        createBookingRead(r, c, "v1", d, s)
  \/ \E r \in Requests : createBookingWrite(r)
  \/ \E id \in RaceBookingIds : deleteBooking(id)

SpecIdRace == InitIdRace /\ [][NextIdRace]_vars

\* ------------------------------------------------------ stock update race
\* updateStock from its entry to the await of item.save(): the body checks,
\* findById, and the adjustment of the copy held by the request
updateStockRead(r, id, quantity, operation) ==
  /\ UNCHANGED <<now, bookings, jobs, invoices, leaveRequests, goodsRequests, inventory, issued, users, vehicles>>
  /\ inflight[r] = NoDoc
  /\ json' = NoDoc
  /\ IF stockInputError(quantity, operation)
       THEN Reply(400) /\ UNCHANGED inflight
     ELSE IF inventory[id] = NoDoc
       THEN Reply(404) /\ UNCHANGED inflight
     ELSE LET a == stockRule(inventory[id].currentStock, quantity, operation)
          IN /\ a.stock <= MaxStock
             /\ IF a.code # 200
                  THEN Reply(a.code) /\ UNCHANGED inflight
                  ELSE /\ inflight' = [inflight EXCEPT ![r] =
                            [item |-> id, currentStock |-> a.stock,
                             quantity |-> quantity, operation |-> operation]]
                       /\ UNCHANGED resp

\* item.save() and the response: save writes the currentStock of the copy
\* ($set), whatever the stored document holds by then; the copy's stock is
\* never negative, so the validator min: 0 passes
updateStockWrite(r) ==
  /\ UNCHANGED <<now, bookings, jobs, invoices, leaveRequests, goodsRequests, issued, users, vehicles>>
  /\ inflight[r] # NoDoc
  /\ inflight' = [inflight EXCEPT ![r] = NoDoc]
  /\ json' = NoDoc
  /\ inventory' = [inventory EXCEPT ![inflight[r].item].currentStock =
                     inflight[r].currentStock]
  /\ Reply(200)

StockRaceQuantities == 0..MaxStock

InitStockRace ==
  /\ now = 1
  /\ resp = 0
  /\ bookings = <<>>
  /\ jobs = <<>>
  /\ invoices = <<>>
  /\ inflight = [r \in Requests |-> NoDoc]
  /\ leaveRequests = <<>>
  /\ goodsRequests = <<>>
  /\ \E s \in 0..MaxStock, seed \in SeedItems :
       inventory = [i \in InventoryIds |->
                      IF i = "it1"
                        THEN [itemId |-> Ident("ITM", 1), name |-> "n1", currentStock |-> s]
                        ELSE seed]
  /\ json = NoDoc
  /\ issued = ItemIdsOf(inventory)
  /\ users = <<>>
  /\ vehicles = <<>>

\* two updateStock requests in flight at once
NextStockRace ==
  \/ \E r \in Requests, id \in InventoryIds, q \in StockRaceQuantities, o \in OperationInputs :
        updateStockRead(r, id, q, o)
  \/ \E r \in Requests : updateStockWrite(r)

SpecStockRace == InitStockRace /\ [][NextStockRace]_vars

\* ================================================================== claims

\* the booking lifecycle table of the specification
BookingTable ==
  [s \in BookingStatuses |->
     CASE s = "pending" -> {"inspecting", "cancelled"}
       [] s = "inspecting" -> {"working", "cancelled"}
       [] s = "working" -> {"completed", "cancelled"}
       [] OTHER -> {}]

\* C1: whichever updateBookingStatus handles the request, a requested status
\* outside the table pending->{inspecting,cancelled}, inspecting->{working,
\* cancelled}, working->{completed,cancelled} (and other than the current
\* status) is answered 400 and leaves the booking unchanged, and completedAt is written only by a step into completed.
C1_StatusOnlyAlongTable ==
  [][\A id \in BookingIds, s \in StatusInputs, n \in BOOLEAN :
       (bookings[id] # NoDoc /\ (updateBookingStatus(id, s, n) \/ updateBookingStatus2(id, s)))
         => /\ s \notin BookingTable[bookings[id].status] \cup {bookings[id].status}
                 => (resp' = 400 /\ bookings' = bookings)
            /\ bookings'[id].completedAt # bookings[id].completedAt
                 => (s = "completed" /\ bookings[id].status = "working")]_vars

\* C2: no step changes the status of a booking that is completed or cancelled.
C2_BookingTerminal ==
  [][\A id \in BookingIds :
       (/\ bookings[id] # NoDoc
        /\ bookings[id].status \in {"completed", "cancelled"}
        /\ bookings'[id] # NoDoc)
         => bookings'[id].status = bookings[id].status]_vars

\* the job lifecycle table of the specification
JobTable ==
  [s \in JobStatuses |->
     CASE s = "pending" -> {"working"}
       [] s = "working" -> {"completed", "on_hold"}
       [] s = "on_hold" -> {"working"}
       [] OTHER -> {}]

\* C3: for every caller, updateJobStatus with a status outside the table
\* pending->working, working->{completed,on_hold}, on_hold->working (and other
\* than the current status) is refused and leaves the job unchanged, and no step changes the status of a job that
\* is completed or cancelled.
C3_JobStatusOnlyAlongTable ==
  [][\A id \in JobIds :
       jobs[id] # NoDoc =>
         /\ \A s \in JobStatusInputs, c \in Callers :
              (/\ updateJobStatus(id, s, c)
               /\ s \notin JobTable[jobs[id].status] \cup {jobs[id].status})
                => (resp' \in {400, 403} /\ jobs' = jobs)
         /\ (jobs[id].status \in {"completed", "cancelled"} /\ jobs'[id] # NoDoc)
              => jobs'[id].status = jobs[id].status]_vars

\* C4: a job whose status is working has at least one assigned labourer.
C4_WorkingHasLabourer ==
  \A id \in DOMAIN jobs :
    (jobs[id] # NoDoc /\ jobs[id].status = "working")
      => Len(jobs[id].assignedLabourers) > 0

\* C5: a completed job has completedAt set, a job in working has startedAt
\* set, and startedAt, once set, is never changed.
C5_StatusStamps ==
  [][\A id \in JobIds :
       /\ (jobs'[id] # NoDoc /\ jobs'[id].status = "completed")
            => jobs'[id].completedAt # Unset
       /\ (jobs'[id] # NoDoc /\ jobs'[id].status = "working")
            => jobs'[id].startedAt # Unset
       /\ (jobs[id] # NoDoc /\ jobs'[id] # NoDoc /\ jobs[id].startedAt # Unset)
            => jobs'[id].startedAt = jobs[id].startedAt]_vars

\* C6: addWorkLog, updateJobStatus and addInspectionReport leave the
\* actualHours of a completed job as they are.
C6_ActualHoursFrozen ==
  [][\A id \in JobIds :
       (/\ jobs[id] # NoDoc
        /\ jobs[id].status = "completed"
        /\ \E c \in Callers :
             \/ \E st \in HourInputs, en \in HourInputs : addWorkLog(id, st, en, c)
             \/ \E s \in JobStatusInputs : updateJobStatus(id, s, c)
             \/ \E t \in InspectionTypes, a \in BOOLEAN : addInspectionReport(id, t, a, c))
         => jobs'[id].actualHours = jobs[id].actualHours]_vars

\* C7: an invoice whose status is paid has paymentMethod and paidAt set.
C7_PaidHasPayment ==
  \A id \in DOMAIN invoices :
    (invoices[id] # NoDoc /\ invoices[id].status = "paid")
      => (invoices[id].paymentMethod # NULL /\ invoices[id].paidAt # Unset)

\* C8: no step changes the status, items, subtotal, tax, discount or total of
\* an invoice that is paid or cancelled.
C8_InvoiceTerminal ==
  [][\A id \in InvoiceIds :
       (/\ invoices[id] # NoDoc
        /\ invoices[id].status \in {"paid", "cancelled"}
        /\ invoices'[id] # NoDoc)
         => \A f \in {"status", "items", "subtotal", "tax", "discount", "total"} :
              invoices'[id][f] = invoices[id][f]]_vars

\* C9: in every stored invoice each line total is quantity x unitPrice, the
\* subtotal is the sum of the line totals plus laborCharges, the total is
\* subtotal + tax - discount, and the total is not negative.
C9_InvoiceArithmetic ==
  \A id \in DOMAIN invoices :
    invoices[id] # NoDoc =>
      LET inv == invoices[id]
      IN /\ \A k \in DOMAIN inv.items :
              inv.items[k].total = inv.items[k].quantity * inv.items[k].unitPrice
         /\ inv.subtotal = SumTotals(inv.items) + inv.laborCharges
         /\ inv.total = inv.subtotal + inv.tax - inv.discount
         /\ inv.total >= 0

\* C10: at most one invoice references any booking, also when createInvoice
\* requests for the same booking interleave.
C10_OneInvoicePerBooking ==
  \A i \in DOMAIN invoices, j \in DOMAIN invoices :
    (i # j /\ invoices[i] # NoDoc /\ invoices[j] # NoDoc)
      => invoices[i].booking # invoices[j].booking

\* C11: a leave request changes status only from pending to approved or
\* rejected, and that step stamps approvedBy and approvedAt (and, for a
\* rejection, stores the reason); a request that is approved or rejected is
\* left exactly as it is by every step; a rejection without a reason is
\* refused and changes nothing.
C11_LeaveLifecycle ==
  [][\A id \in LeaveIds :
       leaveRequests[id] # NoDoc =>
         /\ leaveRequests[id].status # "pending" => leaveRequests'[id] = leaveRequests[id]
         /\ (leaveRequests'[id] # NoDoc /\ leaveRequests'[id].status # leaveRequests[id].status)
              => /\ leaveRequests[id].status = "pending"
                 /\ leaveRequests'[id].status \in {"approved", "rejected"}
                 /\ leaveRequests'[id].approvedBy # NoRef
                 /\ leaveRequests'[id].approvedAt # Unset
                 /\ leaveRequests'[id].status = "rejected"
                      => leaveRequests'[id].rejectionReason # NULL
         /\ \A c \in LeaveCallers :
              rejectLeaveRequest(id, NULL, c)
                => (resp' \in {400, 403} /\ leaveRequests' = leaveRequests)]_vars

\* a rejected request with its stamps, after a refused request
C11_Witness ==
  \E id \in DOMAIN leaveRequests :
    /\ leaveRequests[id] # NoDoc
    /\ leaveRequests[id].status = "rejected"
    /\ leaveRequests[id].approvedBy = ObjectId("m1")
    /\ leaveRequests[id].rejectionReason # NULL
    /\ resp = 400

\* C12: no employee has two leave requests in pending or approved whose date
\* ranges overlap, a shared endpoint counting as overlap.
C12_NoOverlappingLeave ==
  \A i \in DOMAIN leaveRequests, j \in DOMAIN leaveRequests :
    (/\ i # j
     /\ leaveRequests[i] # NoDoc /\ leaveRequests[j] # NoDoc
     /\ leaveRequests[i].employee = leaveRequests[j].employee
     /\ leaveRequests[i].status \in {"pending", "approved"}
     /\ leaveRequests[j].status \in {"pending", "approved"})
      => ~(/\ leaveRequests[i].startDate <= leaveRequests[j].endDate
           /\ leaveRequests[j].startDate <= leaveRequests[i].endDate)

\* one employee holds two live requests on adjacent ranges, and the last
\* request was refused
C12_Witness ==
  \E i \in DOMAIN leaveRequests, j \in DOMAIN leaveRequests :
    /\ i # j
    /\ leaveRequests[i] # NoDoc /\ leaveRequests[j] # NoDoc
    /\ leaveRequests[i].employee = leaveRequests[j].employee
    /\ leaveRequests[i].status = "approved"
    /\ leaveRequests[j].status = "pending"
    /\ leaveRequests[i].endDate + 1 = leaveRequests[j].startDate
    /\ resp = 400

\* C13: for every stored leave request, totalDays is the number of whole days
\* from startDate to endDate plus one.
C13_TotalDaysDerived ==
  \A id \in DOMAIN leaveRequests :
    leaveRequests[id] # NoDoc =>
      leaveRequests[id].totalDays =
        (leaveRequests[id].endDate - leaveRequests[id].startDate) \div DayLength + 1

\* C16: for an existing item and a positive quantity, updateStock with
\* operation subtract answers 400 and leaves the stock as it is exactly when
\* the quantity exceeds currentStock, and otherwise takes the quantity off;
\* and no stored item ever has a negative currentStock.
C16_SubtractGuardAndNonNegative ==
  /\ [](\A id \in DOMAIN inventory :
          inventory[id] # NoDoc => inventory[id].currentStock >= 0)
  /\ [][\A id \in InventoryIds, q \in QuantityInputs :
          (inventory[id] # NoDoc /\ q > 0 /\ updateStock(id, q, "subtract"))
            => IF q > inventory[id].currentStock
                 THEN resp' = 400 /\ inventory' = inventory
                 ELSE /\ resp' = 200
                      /\ inventory'[id].currentStock = inventory[id].currentStock - q]_vars

\* an item brought to a stock of one by a single adjustment
C16_Witness ==
  \E id \in DOMAIN inventory :
    /\ inventory[id] # NoDoc
    /\ inventory[id].currentStock = 1
    /\ resp = 200
    /\ json = NoDoc

\* C17: bulkUpdateStock commits every line that passes its checks, leaves the
\* stock alone for every line that fails, and its response reports the number
\* of committed lines in processed and the number of failed lines in errors.
C17_BulkCounts ==
  [][\A items \in BulkInputs :
       (items # <<>> /\ bulkUpdateStock(items))
         => LET r == bulkLoop(inventory, items)
            IN /\ inventory' = r.inv
               /\ Len(r.results) + Len(r.errors) = Len(items)
               /\ json'.processed = JNum(Len(r.results))
               /\ json'.errors = JNum(Len(r.errors))]_vars

\* C18: for every stored item and every line (quantity, operation) with
\* operation add or subtract, zero and negative quantities included, the line
\* is committed by bulkUpdateStock exactly when updateStock accepts the same
\* adjustment, and both leave the same currentStock.
C18_BulkSameAsSingle ==
  \A id \in DOMAIN inventory :
    inventory[id] # NoDoc =>
      \A q \in QuantityInputs, o \in {"add", "subtract"} :
        LET stock == inventory[id].currentStock
            rule == stockRule(stock, q, o)
            single == IF stockInputError(q, o) \/ rule.stock < 0
                        THEN [code |-> 400, stock |-> stock]
                        ELSE rule
            bulk == bulkLine(inventory, [itemId |-> inventory[id].itemId,
                                         quantity |-> q, operation |-> o])
        IN /\ bulk.ok <=> single.code = 200
           /\ bulk.inv[id].currentStock = single.stock

\* C19: an item that a step stores gets the identifier ITM followed by the
\* zero-padded number n, where n is 1 if no stored identifier starts with ITM
\* and otherwise 1 + the number at the end of the greatest such identifier in
\* string order.
C19_NextIdentifier ==
  [][\A id \in InventoryIds :
       (inventory[id] = NoDoc /\ inventory'[id] # NoDoc)
         => LET ids == ItemIdsOf(inventory)
                n == IF ids = {} THEN 1
                     ELSE 1 + parseInt((CHOOSE x \in ids :
                                \A y \in ids : y = x \/ LexLess(y.digits, x.digits)).digits)
            IN inventory'[id].itemId = [prefix |-> "ITM", digits |-> padStart(Digits(n), padWidth)]]_vars

\* C20: the identifier a step gives to a new item has a number greater than
\* that of every identifier given out before, and no step changes the
\* identifier of a stored item.
C20_IdentifiersIncrease ==
  [][\A id \in InventoryIds :
       /\ (inventory[id] = NoDoc /\ inventory'[id] # NoDoc)
            => \A x \in issued : parseInt(x.digits) < parseInt(inventory'[id].itemId.digits)
       /\ (inventory[id] # NoDoc /\ inventory'[id] # NoDoc)
            => inventory'[id].itemId = inventory[id].itemId]_vars

\* the goods request lifecycle table of the specification
GoodsTable ==
  [s \in GoodsStatuses |->
     CASE s = "pending" -> {"approved", "rejected"}
       [] s = "approved" -> {"released"}
       [] OTHER -> {}]

\* every line of the request names an item that exists with enough stock
EveryLineInStock(doc) ==
  \A k \in DOMAIN doc.items :
     /\ inventory[doc.items[k].item] # NoDoc
     /\ inventory[doc.items[k].item].currentStock >= doc.items[k].quantity

\* every line of the request names an item that exists
EveryLineItemExists(doc) ==
  \A k \in DOMAIN doc.items : inventory[doc.items[k].item] # NoDoc

C15_NoStockMutation ==
  [][/\ goodsRequests' # goodsRequests => inventory' = inventory
     /\ \A id \in GoodsIds, c \in GoodsCallers, r \in ReasonInputs :
          (approveGoodsRequest(id, c) \/ rejectGoodsRequest(id, r, c) \/ releaseGoods(id, c))
            => inventory' = inventory]_vars

\* two requests for the same item, both approved and released, whose
\* quantities together exceed the stock the item had and still has
C15_Witness ==
  /\ \A id \in GoodsIds :
       /\ goodsRequests[id] # NoDoc
       /\ goodsRequests[id].status = "released"
       /\ goodsRequests[id].items = <<[item |-> "it1", quantity |-> MaxStock]>>
  /\ inventory["it1"] # NoDoc
  /\ inventory["it1"].currentStock = MaxStock
  /\ MaxStock + MaxStock > inventory["it1"].currentStock

\* the stored userIds of the users of one role
UserIdsOfRole(coll, role) ==
  {coll[i].userId : i \in {j \in DOMAIN coll : coll[j] # NoDoc /\ coll[j].role = role}}

\* 1, or 1 + the number at the end of the greatest stored userId of the role
NextNumberOfRole(coll, role) ==
  LET ids == UserIdsOfRole(coll, role)
  IN IF ids = {} THEN 1
     ELSE parseInt(trailingDigits(CHOOSE a \in ids : \A b \in ids : ~LexLess(a, b))) + 1

\* C21: the userId given to a new user of role r is r's prefix followed by
\* the 5-digit zero-padded value 1 + the number at the end of the greatest
\* stored userId of role r (1 when there is none), whatever users of other
\* roles are stored.
C21_RoleSequences ==
  [][\A id \in UserIds :
       (users[id] = NoDoc /\ users'[id] # NoDoc)
         => users'[id].userId =
              UserIdString(rolePrefix[users'[id].role], NextNumberOfRole(users, users'[id].role))]_vars

\* C22: a request gets through authenticate to the handler, with the user of
\* the token's subject attached, exactly when the header carries a token
\* that is well formed and signed, not expired, whose subject is a stored
\* user with status active and with no lock running at that moment;
\* otherwise it is answered 401 (no token, bad token, expired token, no
\* such user), 403 (status other than active) or 423 (locked).
C22_AuthenticationGate ==
  [][\A h \in GateHeaders :
       getProfile(h)
         => LET credential == IF h = NoDoc THEN FALSE ELSE h.signed /\ h.exp > now
                exists == IF credential /\ h.sub \in DOMAIN users
                            THEN users[h.sub] # NoDoc ELSE FALSE
                active == IF exists THEN users[h.sub].status = "active" ELSE FALSE
                locked == IF exists
                            THEN users[h.sub].lockUntil # Unset /\ users[h.sub].lockUntil > now
                            ELSE FALSE
            IN /\ resp' = 200 <=> (active /\ ~locked)
               /\ resp' = 200 => /\ json'.user.userId = ObjectId(h.sub)
                                 /\ json'.user.role = users[h.sub].role
               /\ ~exists => resp' = 401
               /\ (exists /\ ~active) => resp' = 403
               /\ (active /\ locked) => resp' = 423]_vars

\* the customer let through again with a token once a lock has run out
C22_Witness ==
  /\ resp = 200
  /\ json = [user |-> [userId |-> ObjectId("u1"), role |-> "customer", status |-> "active"]]
  /\ users["u1"] # NoDoc
  /\ users["u1"].lockUntil # Unset
  /\ users["u1"].lockUntil <= now

C30_ExpiryKeepsCounter ==
  [][/\ now' # now => users' = users
     /\ \A id \in AccountIds :
          (users[id] # NoDoc /\ users'[id] # NoDoc)
            => /\ users'[id].loginAttempts < users[id].loginAttempts
                  => /\ users'[id].loginAttempts = 0
                     /\ resp' = 200
                     /\ \/ users'[id].lastLogin = now /\ json' # NoDoc
                        \/ /\ users'[id].passwordResetToken = NULL
                           /\ users'[id].password = [bcrypt |-> "p2"]
               /\ (/\ users[id].loginAttempts >= maxLoginAttempts
                   /\ ~(users[id].lockUntil # Unset /\ users[id].lockUntil > now)
                   /\ users'[id].loginAttempts = users[id].loginAttempts + 1)
                  => users'[id].lockUntil = now + lockTime]_vars

\* a lock set anew by the sixth failure, after the first lock ran out
C30_Witness ==
  /\ resp = 401
  /\ users["u1"].loginAttempts = maxLoginAttempts + 1
  /\ users["u1"].lockUntil = now + lockTime
  /\ now > 1

\* C24: a customer gets the invoice list of a customer id only when that id
\* is the customer's own: a GET /customer/:customerId answered 200 to a
\* requester with role customer is for the requester's own id.
C24_CustomerReadsOwnInvoices ==
  [][\A c \in AccessIds, h \in {Bearer(u) : u \in AccessIds} :
       (/\ getInvoicesByCustomer(c, h)
        /\ resp' = 200
        /\ users[h.sub].role = "customer")
         => c = h.sub]_vars

\* C25: no two bookings whose status is neither cancelled nor completed have
\* the same scheduledDate and timeSlot.
C25_SlotExclusive ==
  \A a \in DOMAIN bookings, b \in DOMAIN bookings :
     (/\ a # b
      /\ bookings[a] # NoDoc /\ bookings[b] # NoDoc
      /\ bookings[a].status \notin {"cancelled", "completed"}
      /\ bookings[b].status \notin {"cancelled", "completed"})
       => \/ bookings[a].scheduledDate # bookings[b].scheduledDate
          \/ bookings[a].timeSlot # bookings[b].timeSlot

\* C26: the stored mileage of a vehicle is never lower after a step than it
\* was before it.
C26_MileageNonDecreasing ==
  [][\A id \in VehicleIds :
       (vehicles[id] # NoDoc /\ vehicles'[id] # NoDoc)
         => vehicles'[id].mileage >= vehicles[id].mileage]_vars

\* C27: updateJobStatus and addWorkLog by a technician who is listed in the
\* job's assignedLabourers are not refused with 403, and the same calls by
\* a technician who is not listed are answered 403 and leave the job as it is.
C27_TechnicianByAssignment ==
  [][\A id \in JobIds, c \in Callers :
       (jobs[id] # NoDoc /\ UserRole[c] = "technician")
         => LET listed == \E k \in DOMAIN jobs[id].assignedLabourers :
                             jobs[id].assignedLabourers[k].labourer = ObjectId(c)
                called == \/ \E s \in JobStatusInputs : updateJobStatus(id, s, c)
                          \/ \E a \in HourInputs, b \in HourInputs : addWorkLog(id, a, b, c)
            IN called => IF listed THEN resp' # 403
                                   ELSE resp' = 403 /\ jobs' = jobs]_vars

\* C28 as stated: when a creation's insert finds the identifier it computed
\* already stored by a concurrent creation, the write is performed all the same
\* and a second entity with that identifier is stored.
C28_BothWritesPerformed ==
  [][\A r \in Requests :
       (/\ inflight[r] # NoDoc
        /\ inflight'[r] = NoDoc
        /\ DuplicateBookingId(inflight[r].bookingId))
       => \E id \in DOMAIN bookings : bookings[id] = NoDoc /\ bookings'[id] = inflight[r]]_vars

\* C28 amended: two concurrent creations can compute the same bookingId, but
\* the unique index rejects the insert that comes second: it is answered 400,
\* the collection is left as it was, and no two stored bookings ever share a
\* bookingId.
C28_UniqueIndexRejectsSecondWrite ==
  /\ [](\A a, b \in DOMAIN bookings :
          (a # b /\ bookings[a] # NoDoc /\ bookings[b] # NoDoc)
          => bookings[a].bookingId # bookings[b].bookingId)
  /\ [][\A r \in Requests :
          (/\ inflight[r] # NoDoc
           /\ inflight'[r] = NoDoc
           /\ \E o \in DOMAIN bookings :
                bookings[o] # NoDoc /\ bookings[o].bookingId = inflight[r].bookingId)
          => resp' = 400 /\ bookings' = bookings]_vars

\* the second of two creations that computed BK00001 has just been rejected
C28_Witness ==
  /\ resp = 400
  /\ json = [msg |-> [field |-> "bookingId", value |-> Ident("BK", 1)]]
  /\ \E o \in DOMAIN bookings : bookings[o] # NoDoc /\ bookings[o].bookingId = Ident("BK", 1)
  /\ \A r \in Requests : inflight[r] = NoDoc

\* C29: every updateStock that is answered 200 changes the stored currentStock
\* by exactly its quantity, up for add and down for subtract, counted from the
\* stock at the moment of its write, also when another updateStock on the item
\* is in flight; and no subtract is answered 200 when the stock at the moment
\* of its write is smaller than its quantity.
C29_StockAdjustmentsAtomic ==
  [][\A r \in Requests :
       (inflight[r] # NoDoc /\ inflight'[r] = NoDoc /\ resp' = 200)
       => LET id == inflight[r].item
              q == inflight[r].quantity
          IN IF inflight[r].operation = "add"
               THEN inventory'[id].currentStock = inventory[id].currentStock + q
               ELSE /\ inventory[id].currentStock >= q
                    /\ inventory'[id].currentStock = inventory[id].currentStock - q]_vars

====
